---- MODULE Spec2Model ----
(***************************************************************************)
(* A model of the numerical core of kac_core: the finite-difference time   *)
(* domain steppers of src/src/physics/fdtd/fdtd.hpp, the additive          *)
(* synthesiser of src/src/physics/modes/wave_equation.hpp and the modal    *)
(* series / amplitude generators of src/src/physics/modes.                 *)
(*                                                                         *)
(* A C++ double is modelled by an exact rational <<n, d>> in lowest terms  *)
(* with d > 0, so the arithmetic of the model is the arithmetic of the     *)
(* code wherever the code's operations are exact in binary floating point  *)
(* (small integers, halves, quarters), and real arithmetic elsewhere.      *)
(* std::vector<double> is a function on 0 .. size-1, and a                 *)
(* std::vector<std::vector<double>> is a function of such functions, whose *)
(* rows may differ in length.                                              *)
(***************************************************************************)
EXTENDS Integers, Sequences, FiniteSets, TLC

VARIABLES
    fn,         \* the function being executed
    pc,         \* its position: "start", "loop", "normalise", "done", ...
    u_0, u_1,   \* FDTD: the two resident grids (by-value parameters)
    arg_u_0,    \* FDTD: the caller's u_0, which the call never changes
    arg_u_1,    \* FDTD: the caller's u_1
    B,          \* FDTD 2D: the boundary mask
    c_0, c_1, c_2,  \* FDTD: the coefficients
    T,          \* the number of samples
    w,          \* FDTD: the readout coordinate
    readout,    \* FDTD: x_0, y_0, a, b as computed once before stepping
    x_range,    \* FDTD 2D: the active bounding box on x
    y_range,    \* FDTD 2D: the active bounding box on y
    t,          \* the loop counter of the time / sample loop
    waveform,   \* the waveform under construction, then normalised
    F,          \* additive synthesis: the frequencies
    alpha,      \* additive synthesis: the amplitudes
    d_step,     \* additive synthesis: std::exp(d)
    k,          \* additive synthesis: the sample length
    d_t,        \* additive synthesis: the running decay factor
    N, M,       \* modes: the numbers of modes
    boundary_conditions,    \* modes: <<first, second>>, TRUE = fixed
    x_strike,   \* modes: the strike location x
    epsilon,    \* modes: the aspect ratio of the rectangle
    mode_m,     \* cymatics: the modal index m
    mode_n,     \* cymatics: the modal index n
    H,          \* cymatics: the length of the X and Y axes
    z_mn,       \* cymatics: the zero crossing used
    U,          \* cymatics: the diagram returned; Chladni pattern: the diagram given
    tolerance,  \* Chladni pattern: the thickness of the nodal lines
    r_polar,    \* circularAmplitudes: the strike location r
    theta,      \* circularAmplitudes: the strike location theta
    mu,         \* initial conditions: the maximum of the distribution
    sigma,      \* raised cosine: the variance
    x_a, x_b,   \* raised triangle: the segment lengths on x
    y_a, y_b,   \* raised triangle: the segment lengths on y
    size_X,     \* initial conditions: the size of the matrix (size in 1D)
    size_Y,     \* initial conditions: the size of the matrix on y
    raised_cosine,  \* raised cosine: the distribution returned
    triangle,   \* raised triangle: the distribution returned
    S,          \* modes: the series returned
    A,          \* modes: the amplitudes returned
    random_engine,  \* geometry: the state of the process-wide random engine
    seed,       \* geometry: the seed given to the last call of a generator
    calls,      \* geometry: the number of calls of a generator so far
    generated,  \* geometry: what the first call with each (N, seed) returned
    polygon,    \* geometry: the polygon given, or the polygon returned
    point,      \* geometry: the point given
    answer,     \* geometry: the value returned
    bracket,    \* circularSeries, free: the loop's m, n and bounds, and the brackets bisected
    pending     \* FDTD update, one cell at a time: the cells not yet visited

fdtdVars == <<u_0, u_1, arg_u_0, arg_u_1, B, c_0, c_1, c_2, w, readout, x_range, y_range>>
synthVars == <<F, alpha, d_step, k, d_t>>
modeArgs == <<N, M, boundary_conditions, x_strike, epsilon, mode_m, mode_n, H>>
modeVars == <<modeArgs, S, A, z_mn, U>>
extraVars ==
    <<tolerance, r_polar, theta, mu, sigma, x_a, x_b, y_a, y_b, size_X, size_Y,
      raised_cosine, triangle,
      random_engine, seed, calls, generated, polygon, point, answer, bracket, pending>>
geometryVars == <<random_engine, seed, calls, generated, polygon, point, answer>>
vars == <<fn, pc, T, t, waveform, fdtdVars, synthVars, modeVars, extraVars>>

\* the variables of a function that is not being executed
FDTDIdle ==
    /\ u_0 = <<>> /\ u_1 = <<>> /\ arg_u_0 = <<>> /\ arg_u_1 = <<>> /\ B = <<>>
    /\ c_0 = <<>> /\ c_1 = <<>> /\ c_2 = <<>> /\ w = <<>>
    /\ readout = <<>> /\ x_range = <<>> /\ y_range = <<>>
SynthIdle == F = <<>> /\ alpha = <<>> /\ d_step = <<>> /\ k = <<>> /\ d_t = <<>>
InitialConditionsIdle ==
    /\ mu = <<>> /\ sigma = <<>> /\ x_a = <<>> /\ x_b = <<>> /\ y_a = <<>> /\ y_b = <<>>
    /\ size_X = 0 /\ size_Y = 0 /\ raised_cosine = <<>> /\ triangle = <<>>
GeometryIdle ==
    /\ random_engine = 0 /\ seed = 0 /\ calls = 0 /\ generated = <<>>
    /\ polygon = <<>> /\ point = <<>> /\ answer = <<>>
ExtraIdle ==
    /\ tolerance = <<>> /\ r_polar = <<>> /\ theta = <<>>
    /\ InitialConditionsIdle
    /\ GeometryIdle
    /\ bracket = <<>> /\ pending = {}
ModeArgsIdle ==
    /\ N = 0 /\ M = 0 /\ boundary_conditions = <<>> /\ x_strike = <<>> /\ epsilon = <<>>
    /\ mode_m = <<>> /\ mode_n = <<>> /\ H = 0
ModesIdle ==
    /\ ModeArgsIdle
    /\ S = <<>> /\ A = <<>> /\ z_mn = <<>> /\ U = <<>>

(***************************************************************************)
(* Bounds of the model.                                                    *)
(***************************************************************************)
GridX == 4
GridY == 4
Grid1D == 5
MaxOnes == 3
MaxT == 4
MaxModes == 2
MaxSamples == 4
MaxN == 4
MaxIndex == 2
MaxH == 4
MaxCells == 3
MaxSize == 3
MaxVertices == 3
MaxCalls == 2
MaxCoordinate == 2

(***************************************************************************)
(* double arithmetic, exact.                                               *)
(***************************************************************************)
Abs(n) == IF n < 0 THEN -n ELSE n

RECURSIVE GCD(_, _)
GCD(m, n) == IF n = 0 THEN m ELSE GCD(n, m % n)

Rat(n, d) ==
    LET s == IF d < 0 THEN -1 ELSE 1
        g == GCD(Abs(n), Abs(d))
    IN  <<(s * n) \div g, (s * d) \div g>>

Zero == <<0, 1>>
One == <<1, 1>>
Int2R(n) == <<n, 1>>
RAdd(p, q) == Rat(p[1] * q[2] + q[1] * p[2], p[2] * q[2])
RSub(p, q) == Rat(p[1] * q[2] - q[1] * p[2], p[2] * q[2])
RMul(p, q) == Rat(p[1] * q[1], p[2] * q[2])
RDiv(p, q) == Rat(p[1] * q[2], p[2] * q[1])
RAbs(p) == <<Abs(p[1]), p[2]>>
RLe(p, q) == p[1] * q[2] <= q[1] * p[2]
RMax(p, q) == IF RLe(p, q) THEN q ELSE p
RLt(a, b) == RLe(a, b) /\ a # b
Floor(p) == p[1] \div p[2]
Ceil(p) == -Floor(<<-p[1], p[2]>>)

size(v) == Cardinality(DOMAIN v)

(***************************************************************************)
(* FDTDWaveform2D.                                                         *)
(***************************************************************************)
Has2D(u, x, y) == x \in DOMAIN u /\ y \in DOMAIN u[x]

\* the fractional grid index taken over the whole grid, size - 1 cells
Readout2D_WholeGrid ==
    LET sx == RMul(w.x, Int2R(size(u_0) - 1))
        sy == RMul(w.y, Int2R(size(u_0[0]) - 1))
    IN  [x_0 |-> Floor(sx), y_0 |-> Floor(sy),
         a |-> RSub(sx, Int2R(Floor(sx))), b |-> RSub(sy, Int2R(Floor(sy)))]

\* lines 124-127: the fractional grid index of the readout point.
Readout2D ==
    LET sx == RMul(w.x, Int2R(size(u_0) - 2))
        sy == RMul(w.y, Int2R(size(u_0[0]) - 2))
    IN  [x_0 |-> Floor(sx), y_0 |-> Floor(sy),
         a |-> RSub(sx, Int2R(Floor(sx))), b |-> RSub(sy, Int2R(Floor(sy)))]

\* lines 128-135: bilinear interpolation with the weights computed once.
bilinearInterpolation(r, u) ==
    LET coef_0 == RMul(RSub(One, r.a), RSub(One, r.b))
        coef_1 == RMul(RSub(One, r.a), r.b)
        coef_2 == RMul(r.a, RSub(One, r.b))
        coef_3 == RMul(r.a, r.b)
    IN  RAdd(RAdd(RMul(coef_0, u[r.x_0][r.y_0]), RMul(coef_1, u[r.x_0][r.y_0 + 1])),
             RAdd(RMul(coef_2, u[r.x_0 + 1][r.y_0]), RMul(coef_3, u[r.x_0 + 1][r.y_0 + 1])))

InterpReads(r) ==
    {<<r.x_0, r.y_0>>, <<r.x_0, r.y_0 + 1>>, <<r.x_0 + 1, r.y_0>>, <<r.x_0 + 1, r.y_0 + 1>>}

\* lines 147-152: the first y of row x, scanning upwards, whose mask is set (0: none).
RECURSIVE FirstOne(_, _)
FirstOne(x, y) ==
    IF ~(y < size(B[0]) - 1) THEN 0
    ELSE IF B[x][y] = 1 THEN y
    ELSE FirstOne(x, y + 1)

\* lines 146-154: the forward loop over the rows.
RECURSIVE ForwardScan(_, _, _)
ForwardScan(x, xr, yr) ==
    IF ~(x < size(B) - 1) THEN <<xr, yr>>
    ELSE LET y == FirstOne(x, 1)
         IN  IF y = 0 THEN ForwardScan(x + 1, xr, yr)
             ELSE ForwardScan(x + 1, IF x < xr THEN x ELSE xr, IF y < yr THEN y ELSE yr)

\* lines 157-162: the last y of row x, scanning downwards, whose mask is set (0: none).
RECURSIVE LastOne(_, _)
LastOne(x, y) ==
    IF ~(y > 0) THEN 0
    ELSE IF B[x][y] = 1 THEN y
    ELSE LastOne(x, y - 1)

\* lines 156-164: the backward loop over the rows.
RECURSIVE BackwardScan(_, _, _)
BackwardScan(x, xr, yr) ==
    IF ~(x > 0) THEN <<xr, yr>>
    ELSE LET y == LastOne(x, size(B[0]) - 2)
         IN  IF y = 0 THEN BackwardScan(x - 1, xr, yr)
             ELSE BackwardScan(x - 1, IF x > xr THEN x ELSE xr, IF y > yr THEN y ELSE yr)

\* the bounding box of every 1 of the mask, the outermost rows and columns
\* scanned too
Ranges_WholeMask ==
    LET ones == {c \in (0 .. size(B) - 1) \X (0 .. size(B[0]) - 1) : B[c[1]][c[2]] = 1}
        xs == {c[1] : c \in ones}
        ys == {c[2] : c \in ones}
    IN  IF ones = {} THEN [x |-> <<size(B), 0>>, y |-> <<size(B[0]), 0>>]
        ELSE [x |-> <<CHOOSE i \in xs : \A j \in xs : i <= j,
                      CHOOSE i \in xs : \A j \in xs : j <= i>>,
              y |-> <<CHOOSE i \in ys : \A j \in ys : i <= j,
                      CHOOSE i \in ys : \A j \in ys : j <= i>>]

\* lines 143-164: x_range and y_range, as {first, last}.
Ranges ==
    LET f == ForwardScan(1, size(B), size(B[0]))
        l == BackwardScan(size(B) - 2, 0, 0)
    IN  [x |-> <<f[1], l[1]>>, y |-> <<f[2], l[2]>>]

\* lines 172-174: the new value of one cell, written in place into u_a.
UpdateCell2D_ReadsOwnBuffer(u_a, u_b, x, y) ==
    RSub(RAdd(RMul(c_0, RAdd(RAdd(u_b[x + 1][y], u_b[x][y + 1]),
                             RAdd(u_a[x - 1][y], u_a[x][y - 1]))),
              RMul(c_1, u_b[x][y])),
         RMul(c_2, u_a[x][y]))

UpdateCell2D(u_a, u_b, x, y) ==
    RSub(RAdd(RMul(c_0, RAdd(RAdd(u_b[x + 1][y], u_b[x][y + 1]),
                             RAdd(u_b[x - 1][y], u_b[x][y - 1]))),
              RMul(c_1, u_b[x][y])),
         RMul(c_2, u_a[x][y]))

\* lines 166-178: the lambda FDTDUpdate2D, cell after cell from (x, y) on.
RECURSIVE FDTDUpdate2DFrom_IgnoresMask(_, _, _, _)
FDTDUpdate2DFrom_IgnoresMask(u_a, u_b, x, y) ==
    IF x > x_range[2] THEN u_a
    ELSE IF y > y_range[2] THEN FDTDUpdate2DFrom_IgnoresMask(u_a, u_b, x + 1, y_range[1])
    ELSE FDTDUpdate2DFrom_IgnoresMask(
            [u_a EXCEPT ![x][y] = UpdateCell2D(u_a, u_b, x, y)], u_b, x, y + 1)

RECURSIVE FDTDUpdate2DFrom(_, _, _, _)
FDTDUpdate2DFrom(u_a, u_b, x, y) ==
    IF x > x_range[2] THEN u_a
    ELSE IF y > y_range[2] THEN FDTDUpdate2DFrom(u_a, u_b, x + 1, y_range[1])
    ELSE FDTDUpdate2DFrom(
            IF B[x][y] = 1
                THEN [u_a EXCEPT ![x][y] = UpdateCell2D(u_a, u_b, x, y)]
                ELSE u_a,
            u_b, x, y + 1)

FDTDUpdate2D(u_a, u_b) == FDTDUpdate2DFrom(u_a, u_b, x_range[1], y_range[1])

\* The cells of the two grids that one call of the lambda reads or writes.
UpdateReads2D ==
    UNION {IF B[x][y] = 1
              THEN {<<x, y>>, <<x + 1, y>>, <<x, y + 1>>, <<x - 1, y>>, <<x, y - 1>>}
              ELSE {} : x \in x_range[1] .. x_range[2], y \in y_range[1] .. y_range[2]}

\* lines 187-188: max_x, the greatest of 0 and the absolute values of the samples.
Peak(wf) ==
    LET vals == {Zero} \cup {RAbs(wf[i]) : i \in DOMAIN wf}
    IN  CHOOSE max_x \in vals : \A v \in vals : RLe(v, max_x)

\* line 190 (82): one sample divided by the peak.
NormaliseSample_Swapped(x, max_x) == IF x[1] = 0 THEN <<1, 0>> ELSE RDiv(max_x, x)

NormaliseSample(x, max_x) == RDiv(x, max_x)

\* lines 186-191: normalise.
Normalise(wf) ==
    LET max_x == Peak(wf)
    IN  IF max_x # Zero THEN [i \in DOMAIN wf |-> NormaliseSample(wf[i], max_x)] ELSE wf

\* lines 116-164: the checks, the first two samples and the bounding box.
Start2D ==
    /\ fn = "FDTDWaveform2D"
    /\ pc = "start"
    /\ IF size(u_0) # size(u_1) \/ size(u_0[0]) # size(u_1[0])
         THEN /\ pc' = "invalid_argument"
              /\ UNCHANGED <<readout, waveform, x_range, y_range, t>>
       ELSE IF size(u_0) # size(B) \/ size(u_0[0]) # size(B[0])
         THEN /\ pc' = "invalid_argument"
              /\ UNCHANGED <<readout, waveform, x_range, y_range, t>>
       ELSE IF \/ T < 2
               \/ size(u_0) < 2 \/ size(u_0[0]) < 2
               \/ \E c \in InterpReads(Readout2D) :
                      ~Has2D(u_0, c[1], c[2]) \/ ~Has2D(u_1, c[1], c[2])
         THEN \* an access outside a vector: the behaviour is undefined
              /\ pc' \in {"crashed", "garbage"}
              /\ UNCHANGED <<readout, waveform, x_range, y_range, t>>
       ELSE /\ readout' = Readout2D
            /\ waveform' = [i \in 0 .. T - 1 |->
                              IF i = 0 THEN bilinearInterpolation(Readout2D, u_0)
                              ELSE IF i = 1 THEN bilinearInterpolation(Readout2D, u_1)
                              ELSE Zero]
            /\ x_range' = Ranges.x
            /\ y_range' = Ranges.y
            /\ t' = 2
            /\ pc' = "loop"
    /\ UNCHANGED <<synthVars, modeVars, extraVars>>
    /\ UNCHANGED <<fn, u_0, u_1, arg_u_0, arg_u_1, B, c_0, c_1, c_2, T, w>>

\* lines 180-185: one iteration of the main loop.
Step2D ==
    /\ fn = "FDTDWaveform2D"
    /\ pc = "loop"
    /\ t < T
    /\ IF \E c \in UpdateReads2D : ~Has2D(u_0, c[1], c[2]) \/ ~Has2D(u_1, c[1], c[2])
         THEN /\ pc' \in {"crashed", "garbage"}
              /\ UNCHANGED <<u_0, u_1, waveform, t>>
         ELSE LET u == FDTDUpdate2D(u_0, u_1)
              IN  /\ waveform' = [waveform EXCEPT ![t] = bilinearInterpolation(readout, u)]
                  /\ u_0' = u_1
                  /\ u_1' = u
                  /\ t' = t + 1
                  /\ pc' = "loop"
    /\ UNCHANGED <<synthVars, modeVars, extraVars>>
    /\ UNCHANGED <<fn, arg_u_0, arg_u_1, B, c_0, c_1, c_2, T, w, readout, x_range, y_range>>

\* lines 186-192: normalise and return.
Finish2D ==
    /\ fn = "FDTDWaveform2D"
    /\ pc = "loop"
    /\ ~(t < T)
    /\ waveform' = Normalise(waveform)
    /\ pc' = "done"
    /\ UNCHANGED <<synthVars, modeVars, extraVars>>
    /\ UNCHANGED <<fn, T, t, fdtdVars>>

(***************************************************************************)
(* The inputs of FDTDWaveform2D.                                           *)
(***************************************************************************)
Cells == (0 .. GridX - 1) \X (0 .. GridY - 1)
Interior == (1 .. GridX - 2) \X (1 .. GridY - 2)

ZeroGrid == [x \in 0 .. GridX - 1 |-> [y \in 0 .. GridY - 1 |-> Zero]]
\* a grid that is non-zero in most cells, the border included
PatternA(x, y) == Int2R(((2 * x + 3 * y + 1) % 5) - 2)
PatternB(x, y) == Int2R(((x * x + y + 2) % 4) - 1)
\* a unit impulse at the centre cell
CentreImpulse(x, y) == IF x = GridX \div 2 /\ y = GridY \div 2 THEN One ELSE Zero
GridA == [x \in 0 .. GridX - 1 |-> [y \in 0 .. GridY - 1 |-> PatternA(x, y)]]
GridB == [x \in 0 .. GridX - 1 |-> [y \in 0 .. GridY - 1 |-> PatternB(x, y)]]
ImpulseGrid == [x \in 0 .. GridX - 1 |-> [y \in 0 .. GridY - 1 |-> CentreImpulse(x, y)]]

\* a mask: any set of at most MaxOnes interior cells, or the whole interior, with the
\* border cells all fixed or all free
Masks ==
    {[x \in 0 .. GridX - 1 |-> [y \in 0 .. GridY - 1 |->
        IF <<x, y>> \in ones THEN 1 ELSE IF <<x, y>> \in Interior THEN 0 ELSE border]] :
        ones \in {free \in SUBSET Interior : Cardinality(free) <= MaxOnes \/ free = Interior},
        border \in {0, 1}}

Coefficients == {<<One, Zero, One>>, <<Rat(1, 2), Zero, One>>, <<Rat(1, 4), One, Rat(1, 2)>>}
Readouts2D == {[x |-> Rat(1, 2), y |-> Rat(1, 2)], [x |-> One, y |-> Rat(1, 3)]}

\* u with row x cut to len cells
CutRow(u, x, len) == [u EXCEPT ![x] = [y \in 0 .. len - 1 |-> u[x][y]]]
\* u without its last row
DropRow(u) == [x \in 0 .. size(u) - 2 |-> u[x]]

Init2D ==
    /\ SynthIdle /\ ModesIdle /\ ExtraIdle
    /\ fn = "FDTDWaveform2D"
    /\ pc = "start"
    /\ \E c \in Coefficients : c_0 = c[1] /\ c_1 = c[2] /\ c_2 = c[3]
    /\ T \in 0 .. MaxT
    /\ t = 0
    /\ waveform = <<>>
    /\ readout = <<>>
    /\ x_range = <<>>
    /\ y_range = <<>>
    /\ \/ \* grids and mask of one shape
          /\ u_0 \in {ZeroGrid, GridA}
          /\ u_1 \in {ImpulseGrid, GridB}
          /\ B \in Masks
          /\ w \in Readouts2D
       \/ \* grids and mask of different shapes
          /\ u_0 = ZeroGrid
          /\ w = [x |-> Zero, y |-> Zero]
          /\ \/ /\ u_1 \in {DropRow(ZeroGrid)} \cup
                           {CutRow(ZeroGrid, x, GridY - 1) : x \in 0 .. GridX - 1}
                /\ B \in {m \in Masks : m[0][0] = 0}
             \/ /\ u_1 = ImpulseGrid
                /\ B \in {DropRow(m) : m \in {m \in Masks : m[0][0] = 0}} \cup
                         {CutRow(m, 0, GridY - 1) : m \in {m \in Masks : m[0][0] = 0}}
    /\ arg_u_0 = u_0
    /\ arg_u_1 = u_1

(***************************************************************************)
(* FDTDWaveform1D.                                                         *)
(***************************************************************************)
\* lines 53-55: X and the fractional grid index of the readout point.
Readout1D ==
    LET X == size(u_0) - 2
        s == RMul(w, Int2R(X))
    IN  [X |-> X, x_0 |-> Floor(s), a |-> RSub(s, Int2R(Floor(s)))]

\* lines 56-59: linear interpolation with the weights computed once.
linearInterpolation(r, u) ==
    LET coef_0 == RSub(One, r.a)
    IN  RAdd(RMul(coef_0, u[r.x_0]), RMul(r.a, u[r.x_0 + 1]))

\* the new value of one cell with the term of u_a added
UpdateCell1D_AddsPrevious(u_a, u_b, x) ==
    RAdd(RAdd(RMul(c_0, RAdd(u_b[x + 1], u_b[x - 1])), RMul(c_1, u_b[x])),
         RMul(c_2, u_a[x]))

\* line 68: the new value of one cell, written in place into u_a.
UpdateCell1D(u_a, u_b, x) ==
    RSub(RAdd(RMul(c_0, RAdd(u_b[x + 1], u_b[x - 1])), RMul(c_1, u_b[x])),
         RMul(c_2, u_a[x]))

\* lines 65-70: the lambda FDTDUpdate1D, cell after cell from x on.
RECURSIVE FDTDUpdate1DFrom_StopsEarly(_, _, _)
FDTDUpdate1DFrom_StopsEarly(u_a, u_b, x) ==
    IF ~(x < readout.X) THEN u_a
    ELSE FDTDUpdate1DFrom_StopsEarly([u_a EXCEPT ![x] = UpdateCell1D(u_a, u_b, x)], u_b, x + 1)

RECURSIVE FDTDUpdate1DFrom(_, _, _)
FDTDUpdate1DFrom(u_a, u_b, x) ==
    IF ~(x <= readout.X) THEN u_a
    ELSE FDTDUpdate1DFrom([u_a EXCEPT ![x] = UpdateCell1D(u_a, u_b, x)], u_b, x + 1)

FDTDUpdate1D(u_a, u_b) == FDTDUpdate1DFrom(u_a, u_b, 1)

\* lines 48-63: the check and the first two samples.
Start1D ==
    /\ fn = "FDTDWaveform1D"
    /\ pc = "start"
    /\ IF size(u_0) # size(u_1)
         THEN /\ pc' = "invalid_argument"
              /\ UNCHANGED <<readout, waveform, t>>
       ELSE IF T < 2 \/ size(u_0) < 2
         THEN \* an access outside a vector: the behaviour is undefined
              /\ pc' \in {"crashed", "garbage"}
              /\ UNCHANGED <<readout, waveform, t>>
       ELSE /\ readout' = Readout1D
            /\ waveform' = [i \in 0 .. T - 1 |->
                              IF i = 0 THEN linearInterpolation(Readout1D, u_0)
                              ELSE IF i = 1 THEN linearInterpolation(Readout1D, u_1)
                              ELSE Zero]
            /\ t' = 2
            /\ pc' = "loop"
    /\ UNCHANGED <<synthVars, modeVars, extraVars>>
    /\ UNCHANGED <<fn, u_0, u_1, arg_u_0, arg_u_1, B, c_0, c_1, c_2, T, w, x_range, y_range>>

\* lines 72-77: one iteration of the main loop.
Step1D ==
    /\ fn = "FDTDWaveform1D"
    /\ pc = "loop"
    /\ t < T
    /\ LET u == FDTDUpdate1D(u_0, u_1)
       IN  /\ waveform' = [waveform EXCEPT ![t] = linearInterpolation(readout, u)]
           /\ u_0' = u_1
           /\ u_1' = u
           /\ t' = t + 1
    /\ UNCHANGED <<synthVars, modeVars, extraVars>>
    /\ UNCHANGED <<fn, pc, arg_u_0, arg_u_1, B, c_0, c_1, c_2, T, w, readout, x_range, y_range>>

\* lines 78-84: normalise and return.
Finish1D ==
    /\ fn = "FDTDWaveform1D"
    /\ pc = "loop"
    /\ ~(t < T)
    /\ waveform' = Normalise(waveform)
    /\ pc' = "done"
    /\ UNCHANGED <<synthVars, modeVars, extraVars>>
    /\ UNCHANGED <<fn, T, t, fdtdVars>>

(***************************************************************************)
(* The inputs of FDTDWaveform1D.                                           *)
(***************************************************************************)
Zero1(n) == [x \in 0 .. n - 1 |-> Zero]
Pattern1(n) == [x \in 0 .. n - 1 |-> Int2R(((3 * x + 1) % 5) - 2)]
Impulse1(n, p) == [x \in 0 .. n - 1 |-> IF x = p THEN One ELSE Zero]
Readouts1D == {Zero, Rat(1, 3), Rat(1, 2), One}

\* test_fdtd.cpp lines 38-46, with the three samples of the spec's scenario
IsScenario1D ==
    /\ fn = "FDTDWaveform1D"
    /\ arg_u_0 = Zero1(11)
    /\ arg_u_1 = Impulse1(11, 5)
    /\ c_0 = One /\ c_1 = Zero /\ c_2 = One
    /\ T = 3
    /\ w = Rat(1, 2)

Init1D ==
    /\ SynthIdle /\ ModesIdle /\ ExtraIdle
    /\ fn = "FDTDWaveform1D"
    /\ pc = "start"
    /\ t = 0
    /\ waveform = <<>>
    /\ readout = <<>>
    /\ x_range = <<>>
    /\ y_range = <<>>
    /\ B = <<>>
    /\ \/ /\ \E c \in Coefficients : c_0 = c[1] /\ c_1 = c[2] /\ c_2 = c[3]
          /\ T \in 0 .. MaxT
          /\ w \in Readouts1D
          /\ \/ /\ u_0 \in {Zero1(Grid1D), Pattern1(Grid1D)}
                /\ u_1 \in {Impulse1(Grid1D, p) : p \in 0 .. Grid1D - 1} \cup
                           {Pattern1(Grid1D)}
             \/ /\ u_0 = Zero1(Grid1D)
                /\ u_1 \in {Impulse1(Grid1D - 1, 1), Impulse1(Grid1D + 1, 1)}
       \/ /\ c_0 = One /\ c_1 = Zero /\ c_2 = One
          /\ T = 3
          /\ w = Rat(1, 2)
          /\ u_0 = Zero1(11)
          /\ u_1 = Impulse1(11, 5)
    /\ arg_u_0 = u_0
    /\ arg_u_1 = u_1

InitFDTD == Init1D \/ Init2D

NextFDTD == Start1D \/ Step1D \/ Finish1D \/ Start2D \/ Step2D \/ Finish2D

SpecFDTD == InitFDTD /\ [][NextFDTD]_vars

(***************************************************************************)
(* The stable runs of test_fdtd.cpp: a unit impulse at the grid centre, a  *)
(* fully fixed boundary, 1000 samples.                                     *)
(***************************************************************************)
StableT == 1000

\* test_fdtd.cpp lines 38-46
InitStable1D ==
    /\ fn = "FDTDWaveform1D"
    /\ u_0 = Zero1(11)
    /\ u_1 = Impulse1(11, 5)
    /\ B = <<>>
    /\ c_0 = One /\ c_1 = Zero /\ c_2 = One
    /\ w = Rat(1, 2)

\* test_fdtd.cpp lines 54-71
InitStable2D ==
    /\ fn = "FDTDWaveform2D"
    /\ u_0 = [x \in 0 .. 4 |-> [y \in 0 .. 4 |-> Zero]]
    /\ u_1 = [x \in 0 .. 4 |-> [y \in 0 .. 4 |-> IF x = 2 /\ y = 2 THEN One ELSE Zero]]
    /\ B = [x \in 0 .. 4 |-> [y \in 0 .. 4 |->
                IF x \in 1 .. 3 /\ y \in 1 .. 3 THEN 1 ELSE 0]]
    /\ c_0 = Rat(1, 2) /\ c_1 = Zero /\ c_2 = One
    /\ w = [x |-> Rat(1, 2), y |-> Rat(1, 2)]

InitStable ==
    /\ SynthIdle /\ ModesIdle /\ ExtraIdle
    /\ pc = "start"
    /\ T = StableT
    /\ t = 0
    /\ waveform = <<>>
    /\ readout = <<>>
    /\ x_range = <<>>
    /\ y_range = <<>>
    /\ (InitStable1D \/ InitStable2D)
    /\ arg_u_0 = u_0
    /\ arg_u_1 = u_1

SpecStable == InitStable /\ [][NextFDTD]_vars

(***************************************************************************)
(* Properties of the FDTD steppers.                                        *)
(***************************************************************************)
\* the plain three-level recurrence at cell (x, y), from two complete fields
Recurrence2D(curr, prev, x, y) ==
    RSub(RAdd(RMul(c_0, RAdd(RAdd(curr[x + 1][y], curr[x][y + 1]),
                             RAdd(curr[x - 1][y], curr[x][y - 1]))),
              RMul(c_1, curr[x][y])),
         RMul(c_2, prev[x][y]))

IsStep2D == fn = "FDTDWaveform2D" /\ pc = "loop" /\ pc' = "loop"

\* C1: each step of FDTDWaveform2D (t >= 2) starts with u_1 and u_0 holding the
\* complete fields of steps t-1 and t-2 (the caller's grids when t = 2), gives every
\* cell with mask = 1 off the outermost rows and columns the value of the plain
\* three-level recurrence on those two fields, whatever the mask, samples the new
\* field, and leaves u_1 and u_0 holding the fields of steps t and t-1.
C1_TwoBufferSteppingIsTheRecurrence ==
    [][IsStep2D =>
        /\ t >= 2
        /\ (t = 2 => u_0 = arg_u_0 /\ u_1 = arg_u_1)
        /\ \A x \in 1 .. size(B) - 2 : \A y \in 1 .. size(B[0]) - 2 :
              B[x][y] = 1 => u_1'[x][y] = Recurrence2D(u_1, u_0, x, y)
        /\ u_0' = u_1
        /\ waveform'[t] = bilinearInterpolation(readout, u_1')
        /\ t' = t + 1]_vars

\* C1 witness: two steps were taken (each buffer was written in place once) under a
\* mask with several free cells and a fixed cell inside their bounding box, and the
\* newest field is non-zero at free cells.
C1_Witness ==
    /\ fn = "FDTDWaveform2D"
    /\ pc = "loop"
    /\ t >= 4
    /\ \E x \in 1 .. GridX - 2 : \E y \in 1 .. GridY - 2 :
          /\ B[x][y] = 0
          /\ x_range[1] <= x /\ x <= x_range[2] /\ y_range[1] <= y /\ y <= y_range[2]
    /\ Cardinality({c \in Interior : B[c[1]][c[2]] = 1 /\ u_1[c[1]][c[2]] # Zero}) >= 2

\* the shape of a grid: the number of rows and the length of every row
Shape(u) == [x \in DOMAIN u |-> size(u[x])]

\* C3: FDTDWaveform2D throws std::invalid_argument whenever two of u_0, u_1 and B
\* differ in shape (rows and the length of every row), and FDTDWaveform1D whenever
\* u_0 and u_1 differ in length.
C3_ShapeMismatchThrows ==
    /\ (fn = "FDTDWaveform2D" /\ pc # "start"
          /\ (Shape(arg_u_0) # Shape(arg_u_1) \/ Shape(arg_u_0) # Shape(B)))
        => pc = "invalid_argument"
    /\ (fn = "FDTDWaveform1D" /\ pc # "start" /\ size(arg_u_0) # size(arg_u_1))
        => pc = "invalid_argument"

\* the cells that both grids and the mask have
CommonCells == {c \in Cells : Has2D(u_0, c[1], c[2]) /\ Has2D(u_1, c[1], c[2])
                                /\ Has2D(B, c[1], c[2])}

\* C4 (as amended): a cell whose mask value is 0 is never written: each of the two
\* buffers keeps the value the caller gave it there, so the field of step s equals
\* arg_u_0 there for even s and arg_u_1 for odd s (u_1 holds step t-1, u_0 step t-2).
C4_FixedCellsAreNeverWritten ==
    (fn = "FDTDWaveform2D" /\ pc \in {"loop", "done"}) =>
        \A c \in CommonCells : B[c[1]][c[2]] = 0 =>
            /\ u_0[c[1]][c[2]] = IF t % 2 = 0 THEN arg_u_0[c[1]][c[2]] ELSE arg_u_1[c[1]][c[2]]
            /\ u_1[c[1]][c[2]] = IF t % 2 = 0 THEN arg_u_1[c[1]][c[2]] ELSE arg_u_0[c[1]][c[2]]

\* C4 witness: after two steps, a fixed cell inside the bounding box holds a non-zero
\* value next to a free cell whose value has changed.
C4_Witness ==
    /\ fn = "FDTDWaveform2D"
    /\ pc = "loop"
    /\ t >= 4
    /\ \E c \in Interior :
          /\ B[c[1]][c[2]] = 0
          /\ u_1[c[1]][c[2]] # Zero
          /\ B[c[1] + 1][c[2]] = 1
          /\ u_1[c[1] + 1][c[2]] # arg_u_1[c[1] + 1][c[2]]

\* C4 as stated: at every step the field at a cell whose mask value is 0 is what it
\* was at the start, zero.
C4_FixedCellsStayZero ==
    (fn = "FDTDWaveform2D" /\ pc \in {"loop", "done"}) =>
        \A c \in CommonCells : B[c[1]][c[2]] = 0 =>
            /\ u_1[c[1]][c[2]] = arg_u_0[c[1]][c[2]]
            /\ u_1[c[1]][c[2]] = Zero

\* the explicit update rule at cell x, from two complete fields
Recurrence1D(curr, prev, x) ==
    RSub(RAdd(RMul(c_0, RAdd(curr[x + 1], curr[x - 1])), RMul(c_1, curr[x])),
         RMul(c_2, prev[x]))

\* a field read at the readout point: the fractional index w * (size - 2), between
\* the two cells around it
ReadAt(u) ==
    LET p == RMul(w, Int2R(size(u) - 2))
        i == Floor(p)
        frac == RSub(p, Int2R(i))
    IN  RAdd(RMul(RSub(One, frac), u[i]), RMul(frac, u[i + 1]))

IsStep1D == fn = "FDTDWaveform1D" /\ pc = "loop" /\ t < T

\* C2: each step of FDTDWaveform1D gives every cell 1 .. size-2 the value of the
\* update rule on the fields of steps t-1 and t-2, writes no edge cell, and stores as
\* sample t the new field read at the readout point, leaving the other samples alone;
\* samples 0 and 1 are the caller's grids read there; and the scenario (11 cells, unit
\* impulse at cell 5, c = (1, 0, 1), T = 3, readout 0.5) yields the samples
\* 0, 1/2, 1/2 before normalisation and 0, 1, 1 after it.
C2_UpdateRuleAndSamples ==
    /\ [][IsStep1D =>
            /\ \A x \in 1 .. size(u_0) - 2 : u_1'[x] = Recurrence1D(u_1, u_0, x)
            /\ \A x \in {0, size(u_0) - 1} : u_1'[x] = u_0[x]
            /\ u_0' = u_1
            /\ waveform' = [waveform EXCEPT ![t] = ReadAt(u_1')]
            /\ t' = t + 1]_vars
    /\ []((fn = "FDTDWaveform1D" /\ pc = "loop" /\ t = 2) =>
            /\ u_0 = arg_u_0 /\ u_1 = arg_u_1
            /\ waveform[0] = ReadAt(arg_u_0) /\ waveform[1] = ReadAt(arg_u_1))
    /\ []((IsScenario1D /\ pc = "loop" /\ t = T) =>
            waveform = [i \in 0 .. 2 |-> IF i = 0 THEN Zero ELSE Rat(1, 2)])
    /\ []((IsScenario1D /\ pc = "done") =>
            waveform = [i \in 0 .. 2 |-> IF i = 0 THEN Zero ELSE One])

\* C2 witness: the scenario has run to its end.
C2_Witness == IsScenario1D /\ pc = "done" /\ t = 3 /\ u_1[4] = One /\ u_1[6] = One

\* C5: the waveform that FDTDWaveform1D and FDTDWaveform2D return for the stable
\* runs of the test (unit impulse at the centre, fixed boundary, 1000 samples) has
\* 1000 samples, each a number in [-1, 1].
C5_StableWaveformWithinUnitRange ==
    pc = "done" =>
        /\ DOMAIN waveform = 0 .. StableT - 1
        /\ \A i \in DOMAIN waveform :
              /\ waveform[i][2] > 0
              /\ -waveform[i][2] <= waveform[i][1]
              /\ waveform[i][1] <= waveform[i][2]

\* C5 witness: a stable run has returned, with samples at both ends of the range and
\* a sample strictly inside it.
C5_Witness ==
    /\ pc = "done"
    /\ T = StableT
    /\ \E i \in DOMAIN waveform : waveform[i] = One
    /\ \E i \in DOMAIN waveform : waveform[i] = Int2R(-1)
    /\ \E i \in DOMAIN waveform : waveform[i] = Rat(1, 2)

(***************************************************************************)
(* AdditiveSynthesis1D and AdditiveSynthesis2D.                            *)
(*                                                                         *)
(* An angle is measured in turns (the angle over 2 pi), so t * radians is  *)
(* t * k turns, and std::sin is the exact sine, taken at the multiples of  *)
(* a quarter turn only. The decay d enters through d_step = e^d alone.     *)
(***************************************************************************)
SinTurns(q) ==
    LET m == RMul(Int2R(4), q)
    IN  CASE m[2] = 1 /\ m[1] % 4 = 0 -> Zero
          [] m[2] = 1 /\ m[1] % 4 = 1 -> One
          [] m[2] = 1 /\ m[1] % 4 = 2 -> Zero
          [] m[2] = 1 /\ m[1] % 4 = 3 -> Int2R(-1)

\* wave_equation.hpp lines 46-50: the inner loop, from mode n on.
RECURSIVE ModeSum1DFrom(_, _, _)
ModeSum1DFrom(n, t_turns, acc) ==
    IF ~(n < size(F)) THEN acc
    ELSE ModeSum1DFrom(n + 1, t_turns,
                       RAdd(acc, RMul(SinTurns(RMul(F[n], t_turns)), alpha[n])))

\* wave_equation.hpp lines 91-97: the inner loops, from mode (m, n) on.
RECURSIVE ModeSum2DFrom(_, _, _, _)
ModeSum2DFrom(m, n, t_turns, acc) ==
    IF ~(m < size(F)) THEN acc
    ELSE IF ~(n < size(F[0])) THEN ModeSum2DFrom(m + 1, 0, t_turns, acc)
    ELSE ModeSum2DFrom(m, n + 1, t_turns,
                       RAdd(acc, RMul(SinTurns(RMul(F[m][n], t_turns)), alpha[m][n])))

\* wave_equation.hpp line 51 (98): waveform[t] *= d_t.
ApplyDecay_AfterStep(sum, decay) == RMul(sum, RMul(decay, d_step))

ApplyDecay(sum, decay) == RMul(sum, decay)

\* wave_equation.hpp lines 55-56 (102-103): max_x without std::abs would be this.
SynthPeak_Signed(wf) ==
    LET vals == {Zero} \cup {wf[i] : i \in DOMAIN wf}
    IN  CHOOSE max_x \in vals : \A v \in vals : RLe(v, max_x)

\* wave_equation.hpp lines 55-56 (102-103): max_x.
SynthPeak(wf) == Peak(wf)

\* wave_equation.hpp lines 54-59 (101-106): normalise.
SynthNormalise(wf) ==
    LET max_x == SynthPeak(wf)
    IN  IF max_x # Zero THEN [i \in DOMAIN wf |-> RDiv(wf[i], max_x)] ELSE wf

\* wave_equation.hpp lines 39-43.
SynthStart1D ==
    /\ fn = "AdditiveSynthesis1D"
    /\ pc = "start"
    /\ waveform' = [i \in 0 .. T - 1 |-> Zero]
    /\ d_t' = One
    /\ t' = 0
    /\ pc' = "loop"
    /\ UNCHANGED <<fn, T, F, alpha, d_step, k, fdtdVars, modeVars, extraVars>>

\* wave_equation.hpp lines 44-53: one sample.
SynthSample1D ==
    /\ fn = "AdditiveSynthesis1D"
    /\ pc = "loop"
    /\ t < T
    /\ waveform' = [waveform EXCEPT ![t] =
                       ApplyDecay(ModeSum1DFrom(0, RMul(Int2R(t), k), waveform[t]), d_t)]
    /\ d_t' = RMul(d_t, d_step)
    /\ t' = t + 1
    /\ UNCHANGED <<fn, pc, T, F, alpha, d_step, k, fdtdVars, modeVars, extraVars>>

\* wave_equation.hpp lines 54-60.
SynthFinish1D ==
    /\ fn = "AdditiveSynthesis1D"
    /\ pc = "loop"
    /\ ~(t < T)
    /\ waveform' = SynthNormalise(waveform)
    /\ pc' = "done"
    /\ UNCHANGED <<fn, T, t, synthVars, fdtdVars, modeVars, extraVars>>

\* wave_equation.hpp lines 83-88.
SynthStart2D ==
    /\ fn = "AdditiveSynthesis2D"
    /\ pc = "start"
    /\ IF size(F) = 0
         THEN \* F[0] of an empty vector: the behaviour is undefined
              /\ pc' \in {"crashed", "garbage"}
              /\ UNCHANGED <<waveform, d_t, t>>
         ELSE /\ waveform' = [i \in 0 .. T - 1 |-> Zero]
              /\ d_t' = One
              /\ t' = 0
              /\ pc' = "loop"
    /\ UNCHANGED <<fn, T, F, alpha, d_step, k, fdtdVars, modeVars, extraVars>>

\* wave_equation.hpp lines 89-100: one sample.
SynthSample2D ==
    /\ fn = "AdditiveSynthesis2D"
    /\ pc = "loop"
    /\ t < T
    /\ waveform' = [waveform EXCEPT ![t] =
                       ApplyDecay(ModeSum2DFrom(0, 0, RMul(Int2R(t), k), waveform[t]), d_t)]
    /\ d_t' = RMul(d_t, d_step)
    /\ t' = t + 1
    /\ UNCHANGED <<fn, pc, T, F, alpha, d_step, k, fdtdVars, modeVars, extraVars>>

\* wave_equation.hpp lines 101-107.
SynthFinish2D ==
    /\ fn = "AdditiveSynthesis2D"
    /\ pc = "loop"
    /\ ~(t < T)
    /\ waveform' = SynthNormalise(waveform)
    /\ pc' = "done"
    /\ UNCHANGED <<fn, T, t, synthVars, fdtdVars, modeVars, extraVars>>

(***************************************************************************)
(* The inputs of the additive synthesis.                                   *)
(***************************************************************************)
Amplitudes == {Int2R(-1), Zero, One}
DecaySteps == {One, Rat(1, 2), Int2R(2)}
SampleLengths == {Zero, Rat(1, 4), Rat(3, 4)}

InitSynth1D ==
    /\ fn = "AdditiveSynthesis1D"
    /\ \E modes \in 0 .. MaxModes :
          /\ F \in {[n \in 0 .. modes - 1 |-> Int2R(n + 1)],
                    [n \in 0 .. modes - 1 |-> Int2R(n)],
                    [n \in 0 .. modes - 1 |-> One]}
          /\ alpha \in [0 .. modes - 1 -> Amplitudes]

InitSynth2D ==
    /\ fn = "AdditiveSynthesis2D"
    /\ \E rows \in {0, 2}, modes \in 0 .. MaxModes :
          /\ F \in {[m \in 0 .. rows - 1 |-> [n \in 0 .. modes - 1 |-> Int2R(m + n + 1)]],
                    [m \in 0 .. rows - 1 |-> [n \in 0 .. modes - 1 |-> One]]}
          /\ alpha \in [0 .. rows - 1 -> [0 .. modes - 1 -> Amplitudes]]

InitSynth ==
    /\ FDTDIdle /\ ModesIdle /\ ExtraIdle
    /\ pc = "start"
    /\ T \in 0 .. MaxSamples
    /\ t = 0
    /\ waveform = <<>>
    /\ d_t = <<>>
    /\ d_step \in DecaySteps
    /\ k \in SampleLengths
    /\ (InitSynth1D \/ InitSynth2D)

NextSynth ==
    \/ SynthStart1D \/ SynthSample1D \/ SynthFinish1D
    \/ SynthStart2D \/ SynthSample2D \/ SynthFinish2D

SpecSynth == InitSynth /\ [][NextSynth]_vars

(***************************************************************************)
(* Properties of the additive synthesis.                                   *)
(***************************************************************************)
IsSynth == fn \in {"AdditiveSynthesis1D", "AdditiveSynthesis2D"}

RECURSIVE RPow(_, _)
RPow(base, e) == IF e = 0 THEN One ELSE RMul(base, RPow(base, e - 1))

\* The sum of the first n entries of a function on 0 .. n - 1.
RECURSIVE RSum(_, _)
RSum(terms, n) == IF n = 0 THEN Zero ELSE RAdd(RSum(terms, n - 1), terms[n - 1])

\* sin(F * 2 pi * k * i) * alpha of one mode.
ModeTerm(freq, amp, i) == RMul(SinTurns(RMul(freq, RMul(k, Int2R(i)))), amp)

\* The sum over all modes of sin(F * 2 pi * k * i) * alpha.
SumOfModes(i) ==
    IF fn = "AdditiveSynthesis1D"
    THEN RSum([n \in DOMAIN F |-> ModeTerm(F[n], alpha[n], i)], size(F))
    ELSE RSum([m \in DOMAIN F |->
                  RSum([n \in DOMAIN F[m] |-> ModeTerm(F[m][n], alpha[m][n], i)],
                       size(F[m]))],
              size(F))

AmplitudesAllZero ==
    IF fn = "AdditiveSynthesis1D"
    THEN \A n \in DOMAIN alpha : alpha[n] = Zero
    ELSE \A m \in DOMAIN alpha : \A n \in DOMAIN alpha[m] : alpha[m][n] = Zero

\* C7: while AdditiveSynthesis1D/2D runs, the running factor is 1 before the
\* first sample and e^decay to the power t after t samples, and every sample
\* i written so far equals (e^decay)^i times the sum over all modes of
\* sin(F * 2 pi * k * i) * alpha.
C7_RunningDecayFactor ==
    (IsSynth /\ pc = "loop") =>
        /\ d_t = RPow(d_step, t)
        /\ \A i \in 0 .. t - 1 : waveform[i] = RMul(RPow(d_step, i), SumOfModes(i))

C7_Witness ==
    /\ IsSynth /\ pc = "loop"
    /\ t = T /\ T >= 4
    /\ d_step = Rat(1, 2)
    /\ waveform[1] # Zero /\ waveform[3] # Zero
    /\ waveform[3] = RMul(Rat(1, 8), SumOfModes(3))

SinPi(q) == SinTurns(RDiv(q, Int2R(2)))
CosPi(q) == SinTurns(RAdd(RDiv(q, Int2R(2)), Rat(1, 4)))
Sqrt(radicand) == <<"sqrt", radicand>>
Squared(root) == root[2]

\* linear_modes.hpp lines 43 and 116: boundary_conditions.first && boundary_conditions.second.
IsDirichlet_EitherEnd(bc) == bc[1] \/ bc[2]

IsDirichlet(bc) == bc[1] /\ bc[2]

\* linear_modes.hpp lines 46 and 119.
IsNeumann(bc) == ~bc[1] /\ ~bc[2]

\* physics/modes/linear_modes.hpp lines 115-126.
linearSeries(count, bc) ==
    IF IsDirichlet(bc) THEN [n \in 0 .. count - 1 |-> Int2R(n + 1)]
    ELSE IF IsNeumann(bc) THEN [n \in 0 .. count - 1 |-> Int2R(n)]
    ELSE [n \in 0 .. count - 1 |-> RAdd(Int2R(n), Rat(1, 2))]

\* physics/modes/linear_modes.hpp lines 41-53; x_pi = x * pi.
linearAmplitudes(x, count, bc) ==
    IF IsDirichlet(bc)
    THEN [n \in 0 .. count - 1 |-> RAbs(SinPi(RMul(Int2R(n + 1), x)))]
    ELSE IF IsNeumann(bc)
    THEN [n \in 0 .. count - 1 |-> RAbs(CosPi(RMul(Int2R(n), x)))]
    ELSE [n \in 0 .. count - 1 |-> RAbs(SinPi(RMul(RAdd(Int2R(n), Rat(1, 2)), x)))]

\* modes/linear_modes.hpp lines 28-31.
calculateLinearAmplitudes(x, count) ==
    [n \in 0 .. count - 1 |-> SinPi(RMul(Int2R(n + 1), x))]

\* modes/linear_modes.hpp lines 58-60.
calculateLinearSeries(count) == [n \in 0 .. count - 1 |-> Int2R(n + 1)]

\* triangular_modes.hpp lines 63-70: S[n][m], N rows of M entries.
equilateralTriangleSeries(rows, columns) ==
    [n \in 0 .. rows - 1 |->
        LET n_hat == (n + 1) * (n + 1)
        IN  [m \in 0 .. columns - 1 |-> Sqrt((m + 1) * (m + 1) + n_hat + m * n)]]

Call_linearSeries ==
    /\ fn = "linearSeries"
    /\ pc = "start"
    /\ S' = linearSeries(N, boundary_conditions)
    /\ pc' = "done"
    /\ UNCHANGED <<fn, T, t, waveform, modeArgs, A, z_mn, U, fdtdVars, synthVars, extraVars>>

Call_linearAmplitudes ==
    /\ fn = "linearAmplitudes"
    /\ pc = "start"
    /\ A' = linearAmplitudes(x_strike, N, boundary_conditions)
    /\ pc' = "done"
    /\ UNCHANGED <<fn, T, t, waveform, modeArgs, S, z_mn, U, fdtdVars, synthVars, extraVars>>

Call_calculateLinearSeries ==
    /\ fn = "calculateLinearSeries"
    /\ pc = "start"
    /\ S' = calculateLinearSeries(N)
    /\ pc' = "done"
    /\ UNCHANGED <<fn, T, t, waveform, modeArgs, A, z_mn, U, fdtdVars, synthVars, extraVars>>

Call_calculateLinearAmplitudes ==
    /\ fn = "calculateLinearAmplitudes"
    /\ pc = "start"
    /\ A' = calculateLinearAmplitudes(x_strike, N)
    /\ pc' = "done"
    /\ UNCHANGED <<fn, T, t, waveform, modeArgs, S, z_mn, U, fdtdVars, synthVars, extraVars>>

Call_equilateralTriangleSeries ==
    /\ fn = "equilateralTriangleSeries"
    /\ pc = "start"
    /\ S' = equilateralTriangleSeries(N, M)
    /\ pc' = "done"
    /\ UNCHANGED <<fn, T, t, waveform, modeArgs, A, z_mn, U, fdtdVars, synthVars, extraVars>>

\* physics/modes/rectangular_modes.hpp line 189: epsilon_recip.
EpsilonRecip_Unchanged(eps) == eps

EpsilonRecip(eps) == RDiv(One, eps)

\* physics/modes/rectangular_modes.hpp lines 191-205: the boundary condition lambda.
BCLambda(i, scalar, minima, maxima) ==
    IF minima /\ maxima
    THEN RMul(RMul(Int2R(i + 1), Int2R(i + 1)), scalar)
    ELSE IF ~minima /\ ~maxima
    THEN RMul(RMul(Int2R(i), Int2R(i)), scalar)
    ELSE RMul(RMul(RAdd(Int2R(i), Rat(1, 2)), RAdd(Int2R(i), Rat(1, 2))), scalar)

\* physics/modes/rectangular_modes.hpp lines 188-216: S[m][n], M rows of N entries.
rectangularSeries(rows, columns, eps, bc) ==
    LET epsilon_recip == EpsilonRecip(eps)
    IN  [m \in 0 .. rows - 1 |->
            LET m_hat == BCLambda(m, epsilon_recip, bc[1], bc[2])
            IN  [n \in 0 .. columns - 1 |->
                    Sqrt(RAdd(m_hat, BCLambda(n, eps, bc[3], bc[4])))]]

\* modes/rectangular_modes.hpp lines 67-74: S[n][m], N rows of M entries.
calculateRectangularSeries(rows, columns, eps) ==
    [n \in 0 .. rows - 1 |->
        LET n_hat == RMul(RMul(Int2R(n + 1), eps), RMul(Int2R(n + 1), eps))
        IN  [m \in 0 .. columns - 1 |->
                Sqrt(RAdd(RMul(RDiv(Int2R(m + 1), eps), RDiv(Int2R(m + 1), eps)), n_hat))]]

Call_rectangularSeries ==
    /\ fn = "rectangularSeries"
    /\ pc = "start"
    /\ S' = rectangularSeries(M, N, epsilon, boundary_conditions)
    /\ pc' = "done"
    /\ UNCHANGED <<fn, T, t, waveform, modeArgs, A, z_mn, U, fdtdVars, synthVars, extraVars>>

Call_calculateRectangularSeries ==
    /\ fn = "calculateRectangularSeries"
    /\ pc = "start"
    /\ S' = calculateRectangularSeries(N, M, epsilon)
    /\ pc' = "done"
    /\ UNCHANGED <<fn, T, t, waveform, modeArgs, A, z_mn, U, fdtdVars, synthVars, extraVars>>

(***************************************************************************)
(* circularSeries and the earlier calculateCircularSeries.                 *)
(*                                                                         *)
(* The zeros of J_nu and of J'_nu are tabulated to three decimals. A value *)
(* divided by std::sqrt(std::numbers::pi) is kept as the value divided, so *)
(* that no rounding of sqrt(pi) enters a comparison of two entries.        *)
(***************************************************************************)
JZeroTable ==
    << <<2405, 5520, 8654, 11792, 14931>>,
       <<3832, 7016, 10173, 13324, 16471>>,
       <<5136, 8417, 11620, 14796, 17960>>,
       <<6380, 9761, 13015, 16223, 19409>>,
       <<7588, 11065, 14373, 17616, 20827>> >>

\* the zeros of J_(1/2), the multiples of pi
JHalfZeroTable == <<3142, 6283, 9425, 12566, 15708>>

\* the positive zeros of J'_nu
JPrimeZeroTable ==
    << <<3832, 7016, 10173, 13324, 16471>>,
       <<1841, 5331, 8536, 11706, 14864>>,
       <<3054, 6706, 9969, 13170, 16348>>,
       <<4201, 8015, 11346, 14586, 17789>>,
       <<5318, 9282, 12682, 15964, 19196>> >>

\* boost::math::cyl_bessel_j_zero(nu, rank), the ranks counted from the last
\* tabulated zero down.
cyl_bessel_j_zero_FromLast(nu, rank) ==
    IF nu[2] = 1
    THEN Rat(JZeroTable[nu[1] + 1][6 - rank], 1000)
    ELSE Rat(JHalfZeroTable[6 - rank], 1000)

\* boost::math::cyl_bessel_j_zero(nu, rank), rank >= 1.
cyl_bessel_j_zero(nu, rank) ==
    IF nu[2] = 1
    THEN Rat(JZeroTable[nu[1] + 1][rank], 1000)
    ELSE Rat(JHalfZeroTable[rank], 1000)

\* besselJZero(n, m) of modes/bessel.hpp: its Newton iteration ends on the zero.
besselJZero(order, rank) == Rat(JZeroTable[order + 1][rank], 1000)

\* std::numeric_limits<double>::epsilon(), 2^-52: positive and below every
\* zero; the smallest positive value of the tables' resolution stands for it.
DoubleEpsilon == Rat(1, 1000)

\* boost::math::tools::bisect on j_prime of order nu: the root between the two
\* bounds when the function changes sign once between them; no change of
\* sign raises boost::math::evaluation_error.
bisect(nu, lower_bound, upper_bound) ==
    LET zeros == {Rat(JPrimeZeroTable[nu[1] + 1][i], 1000) : i \in 1 .. 5}
        inside == {z \in zeros : RLt(lower_bound, z) /\ RLt(z, upper_bound)}
    IN  IF Cardinality(inside) = 1 THEN CHOOSE z \in inside : TRUE
        ELSE "evaluation_error"

\* a value divided by std::sqrt(std::numbers::pi)
DivSqrtPi(z) == IF z = "evaluation_error" THEN z ELSE <<z[1], z[2], "over sqrt(pi)">>

\* physics/modes/circular_modes.hpp lines 147-153, with order and rank exchanged.
circularSeriesFixed_Transposed(rows, columns) ==
    [m \in 0 .. rows - 1 |->
        [n \in 0 .. columns - 1 |-> DivSqrtPi(cyl_bessel_j_zero(Int2R(n), m + 1))]]

\* physics/modes/circular_modes.hpp lines 147-153.
circularSeriesFixed(rows, columns) ==
    [m \in 0 .. rows - 1 |->
        [n \in 0 .. columns - 1 |-> DivSqrtPi(cyl_bessel_j_zero(Int2R(m), n + 1))]]

\* physics/modes/circular_modes.hpp lines 159-171: row m from column n on,
\* upper_bound being the bound the previous column left.
RECURSIVE circularSeriesFreeRow(_, _, _, _)
circularSeriesFreeRow(m, n, upper_bound, row) ==
    IF ~(n < size(row)) THEN row
    ELSE LET lower == IF n = 0 THEN DoubleEpsilon ELSE upper_bound
             upper == cyl_bessel_j_zero(Int2R(m), n + 1)
         IN  IF m = 0 /\ n = 0
             THEN circularSeriesFreeRow(m, n + 1, upper, row)
             ELSE circularSeriesFreeRow(m, n + 1, upper,
                      [row EXCEPT ![n] = DivSqrtPi(bisect(Int2R(m), lower, upper))])

\* physics/modes/circular_modes.hpp lines 145-174.
circularSeries(rows, columns, bc) ==
    IF bc THEN circularSeriesFixed(rows, columns)
    ELSE [m \in 0 .. rows - 1 |->
             circularSeriesFreeRow(m, 0, Zero, [n \in 0 .. columns - 1 |-> Zero])]

\* modes/circular_modes.hpp lines 48-54: S[n][m], N rows of M entries.
calculateCircularSeries(rows, columns) ==
    [n \in 0 .. rows - 1 |-> [m \in 0 .. columns - 1 |-> besselJZero(n, m + 1)]]

Raises(grid) ==
    \E m \in DOMAIN grid : \E n \in DOMAIN grid[m] : grid[m][n] = "evaluation_error"

Call_circularSeries ==
    /\ fn = "circularSeries"
    /\ pc = "start"
    /\ LET result == circularSeries(M, N, boundary_conditions)
       IN  IF Raises(result)
           THEN pc' = "throws" /\ S' = S
           ELSE pc' = "done" /\ S' = result
    /\ UNCHANGED <<fn, T, t, waveform, modeArgs, A, z_mn, U, fdtdVars, synthVars, extraVars>>

Call_calculateCircularSeries ==
    /\ fn = "calculateCircularSeries"
    /\ pc = "start"
    /\ S' = calculateCircularSeries(N, M)
    /\ pc' = "done"
    /\ UNCHANGED <<fn, T, t, waveform, modeArgs, A, z_mn, U, fdtdVars, synthVars, extraVars>>

(***************************************************************************)
(* circularCymatics.                                                       *)
(*                                                                         *)
(* A field value J_m(z_mn r) (cos(m theta) + sin(m theta)) is kept as the  *)
(* order, the zero crossing and the position it is evaluated at.           *)
(***************************************************************************)
\* circular_modes.hpp lines 87-89 and 106, the lower zero crossing taken as is.
Interpolate_Nearest(z_mn_floor, z_mn_ceil, fraction) ==
    IF z_mn_floor = "evaluation_error" \/ z_mn_ceil = "evaluation_error"
    THEN "evaluation_error"
    ELSE z_mn_floor

\* circular_modes.hpp lines 87-89 and 106: z_mn from the two zero crossings.
Interpolate(z_mn_floor, z_mn_ceil, fraction) ==
    IF z_mn_floor = "evaluation_error" \/ z_mn_ceil = "evaluation_error"
    THEN "evaluation_error"
    ELSE RAdd(z_mn_floor, RMul(RSub(z_mn_ceil, z_mn_floor), fraction))

\* circular_modes.hpp lines 84-89: fixed boundary.
ZeroCrossingFixed(m, n) ==
    LET n_hat == RAdd(n, One)
        n_floor == Floor(n_hat)
        z_mn_floor == cyl_bessel_j_zero(m, n_floor)
    IN  Interpolate(z_mn_floor, cyl_bessel_j_zero(m, Ceil(n_hat)),
                    RSub(n_hat, Int2R(n_floor)))

\* circular_modes.hpp lines 97-98: the rigid body mode.
IsRigidBody_Never(m, n) == FALSE

IsRigidBody(m, n) == m = Zero /\ RLt(n, One)

\* circular_modes.hpp lines 91-106: free boundary.
ZeroCrossingFree(m, n) ==
    LET n_floor == Floor(n)
        lower_bound == IF n_floor = 0 THEN DoubleEpsilon
                       ELSE cyl_bessel_j_zero(m, n_floor)
        mid_bound == cyl_bessel_j_zero(m, n_floor + 1)
        upper_bound == cyl_bessel_j_zero(m, n_floor + 2)
        z_mn_floor == IF IsRigidBody(m, n) THEN Zero
                      ELSE bisect(m, lower_bound, mid_bound)
        z_mn_ceil == bisect(m, mid_bound, upper_bound)
    IN  Interpolate(z_mn_floor, z_mn_ceil, RSub(n, Int2R(n_floor)))

\* circular_modes.hpp lines 81-107.
ZeroCrossing(m, n, bc) ==
    IF bc THEN ZeroCrossingFixed(m, n) ELSE ZeroCrossingFree(m, n)

\* circular_modes.hpp lines 113 and 115: x_prime = (x * H_2) - 1.
Prime(x, length) == RSub(RMul(Int2R(x), RDiv(Int2R(2), Int2R(length))), One)

\* circular_modes.hpp lines 116-117: r <= 1, r = std::hypot(x_prime, y_prime).
InsideDisk_Always(x_prime, y_prime) == TRUE

InsideDisk(x_prime, y_prime) ==
    RLe(RAdd(RMul(x_prime, x_prime), RMul(y_prime, y_prime)), One)

\* circular_modes.hpp lines 118-120.
FieldValue(m, z, x_prime, y_prime) ==
    <<"J_m(z_mn r) (cos(m theta) + sin(m theta))", m, z, x_prime, y_prime>>

\* circular_modes.hpp lines 109-123.
Pattern(m, z, length) ==
    [x \in 0 .. length - 1 |->
        [y \in 0 .. length - 1 |->
            IF InsideDisk(Prime(x, length), Prime(y, length))
            THEN FieldValue(m, z, Prime(x, length), Prime(y, length))
            ELSE Zero]]

\* circular_modes.hpp lines 58-125.
Call_circularCymatics ==
    /\ fn = "circularCymatics"
    /\ pc = "start"
    /\ LET z == ZeroCrossing(mode_m, mode_n, boundary_conditions)
       IN  IF z = "evaluation_error"
           THEN pc' = "throws" /\ UNCHANGED <<z_mn, U>>
           ELSE /\ z_mn' = z
                /\ U' = Pattern(mode_m, z, H)
                /\ pc' = "done"
    /\ UNCHANGED <<fn, T, t, waveform, modeArgs, S, A, fdtdVars, synthVars, extraVars>>

(***************************************************************************)
(* The inputs of the modal functions. A strike location is a point of      *)
(* [0, 1] at which every mode's angle is a multiple of a quarter turn.     *)
(***************************************************************************)
BoundaryConditions == {<<TRUE, TRUE>>, <<FALSE, FALSE>>, <<TRUE, FALSE>>, <<FALSE, TRUE>>}

StrikeLocations(bc) ==
    IF IsDirichlet(bc) \/ IsNeumann(bc) THEN {Zero, Rat(1, 2), One} ELSE {Zero, One}

BoundaryConditions4 == [1 .. 4 -> BOOLEAN]
AspectRatios == {Rat(1, 2), One, Int2R(2)}

CymaticOrders == {Zero, Rat(1, 2), One, Int2R(2)}
CymaticIndices == {Rat(i, 2) : i \in 0 .. 2 * MaxIndex}

InitCymatics ==
    /\ fn = "circularCymatics"
    /\ N = 0 /\ M = 0 /\ x_strike = <<>> /\ epsilon = <<>>
    /\ boundary_conditions \in BOOLEAN
    /\ mode_m \in IF boundary_conditions THEN CymaticOrders
                  ELSE {m \in CymaticOrders : m[2] = 1}
    /\ mode_n \in CymaticIndices
    /\ H \in 0 .. MaxH

InitSeries ==
    /\ mode_m = <<>> /\ mode_n = <<>> /\ H = 0
    /\ N \in 0 .. MaxN
    /\ \/ /\ fn = "linearSeries"
          /\ boundary_conditions \in BoundaryConditions
          /\ x_strike = <<>> /\ M = 0 /\ epsilon = <<>>
       \/ /\ fn = "linearAmplitudes"
          /\ boundary_conditions \in BoundaryConditions
          /\ x_strike \in StrikeLocations(boundary_conditions)
          /\ M = 0 /\ epsilon = <<>>
       \/ /\ fn = "calculateLinearSeries"
          /\ boundary_conditions = <<>> /\ x_strike = <<>> /\ M = 0 /\ epsilon = <<>>
       \/ /\ fn = "calculateLinearAmplitudes"
          /\ boundary_conditions = <<>>
          /\ x_strike \in {Zero, Rat(1, 2), One}
          /\ M = 0 /\ epsilon = <<>>
       \/ /\ fn = "equilateralTriangleSeries"
          /\ boundary_conditions = <<>> /\ x_strike = <<>> /\ epsilon = <<>>
          /\ M \in 0 .. MaxN
       \/ /\ fn = "rectangularSeries"
          /\ boundary_conditions \in BoundaryConditions4
          /\ x_strike = <<>>
          /\ epsilon \in AspectRatios
          /\ M \in 0 .. MaxN
       \/ /\ fn = "calculateRectangularSeries"
          /\ boundary_conditions = <<>> /\ x_strike = <<>>
          /\ epsilon \in AspectRatios
          /\ M \in 0 .. MaxN
       \/ /\ fn = "circularSeries"
          /\ boundary_conditions \in BOOLEAN
          /\ x_strike = <<>> /\ epsilon = <<>>
          /\ M \in 0 .. MaxN
       \/ /\ fn = "calculateCircularSeries"
          /\ boundary_conditions = <<>> /\ x_strike = <<>> /\ epsilon = <<>>
          /\ M \in 0 .. MaxN

InitModes ==
    /\ FDTDIdle /\ SynthIdle /\ ExtraIdle
    /\ pc = "start"
    /\ T = 0 /\ t = 0 /\ waveform = <<>>
    /\ S = <<>> /\ A = <<>> /\ z_mn = <<>> /\ U = <<>>
    /\ \/ InitCymatics
       \/ InitSeries

NextModes ==
    \/ Call_circularCymatics
    \/ Call_linearSeries
    \/ Call_linearAmplitudes
    \/ Call_calculateLinearSeries
    \/ Call_calculateLinearAmplitudes
    \/ Call_equilateralTriangleSeries
    \/ Call_rectangularSeries
    \/ Call_calculateRectangularSeries
    \/ Call_circularSeries
    \/ Call_calculateCircularSeries

SpecModes == InitModes /\ [][NextModes]_vars

(***************************************************************************)
(* Properties of the modal series and amplitudes.                          *)
(***************************************************************************)
\* The documented closed form of the n-th eigenvalue.
ClosedFormSeries(bc, n) ==
    CASE bc = <<TRUE, TRUE>> -> Int2R(n + 1)
      [] bc = <<FALSE, FALSE>> -> Int2R(n)
      [] bc \in {<<TRUE, FALSE>>, <<FALSE, TRUE>>} -> Rat(2 * n + 1, 2)

\* The documented signed eigenfunction value of mode n at x.
SignedAmplitude(bc, n, x) ==
    CASE bc = <<TRUE, TRUE>> -> SinPi(RMul(Int2R(n + 1), x))
      [] bc = <<FALSE, FALSE>> -> CosPi(RMul(Int2R(n), x))
      [] bc \in {<<TRUE, FALSE>>, <<FALSE, TRUE>>} -> SinPi(RMul(Rat(2 * n + 1, 2), x))

\* Lame's formula, squared, for the mode pair (m, n).
Lame(m, n) == m * m + n * n + m * n

\* C8: linearSeries(N, bc) has N values, the n-th being n + 1 when both ends
\* are fixed, n when both are free and n + 0.5 when exactly one is fixed, and
\* they are strictly increasing in n; calculateLinearSeries(N) is 1, 2, .., N.
C8_LinearSeriesClosedForms ==
    /\ (fn = "linearSeries" /\ pc = "done") =>
          /\ DOMAIN S = 0 .. N - 1
          /\ \A n \in 0 .. N - 1 : S[n] = ClosedFormSeries(boundary_conditions, n)
          /\ \A n \in 0 .. N - 2 : RLt(S[n], S[n + 1])
    /\ (fn = "calculateLinearSeries" /\ pc = "done") =>
          /\ \A n \in 0 .. N - 1 : S[n] = Int2R(n + 1)
          /\ \A n \in 0 .. N - 2 : RLt(S[n], S[n + 1])

C8_Witness ==
    /\ fn = "linearSeries" /\ pc = "done"
    /\ N >= 3
    /\ boundary_conditions = <<FALSE, TRUE>>
    /\ S[0] = Rat(1, 2) /\ S[2] = Rat(5, 2)

\* C9 as stated: linearAmplitudes(x, N, bc) is, for each n, the signed value
\* sin((n + 1) x pi), cos(n x pi) or sin((n + 0.5) x pi) of the boundary
\* condition, and linearAmplitudes(0.5, 3, fixed-fixed) is [1, 0, -1].
C9_SignedAmplitudes ==
    (fn = "linearAmplitudes" /\ pc = "done") =>
        /\ \A n \in 0 .. N - 1 : A[n] = SignedAmplitude(boundary_conditions, n, x_strike)
        /\ (x_strike = Rat(1, 2) /\ N = 3 /\ boundary_conditions = <<TRUE, TRUE>>) =>
              A = [n \in 0 .. 2 |-> <<One, Zero, Int2R(-1)>>[n + 1]]

\* C10 as stated: the square of every entry of equilateralTriangleSeries is
\* m^2 + n^2 + m n, with m and n the zero-based indices of the entry
\* throughout, or the mode numbers m + 1 and n + 1 throughout.
C10_LameEigenvalues ==
    (fn = "equilateralTriangleSeries" /\ pc = "done") =>
        \/ \A n \in 0 .. N - 1 : \A m \in 0 .. M - 1 : Squared(S[n][m]) = Lame(m, n)
        \/ \A n \in 0 .. N - 1 : \A m \in 0 .. M - 1 :
              Squared(S[n][m]) = Lame(m + 1, n + 1)

\* The square of the documented eigenvalue of one axis: (i + 1)^2, i^2 or
\* (i + 0.5)^2.
AxisSquare(minima, maxima, i) ==
    RMul(ClosedFormSeries(<<minima, maxima>>, i), ClosedFormSeries(<<minima, maxima>>, i))

\* C11: the square of rectangularSeries(M, N, epsilon, bc)[m][n] is
\* X_m / epsilon + Y_n * epsilon, X_m and Y_n being (i + 1)^2, i^2 or
\* (i + 0.5)^2 by the boundary pair of the axis, for all 16 selections and
\* every epsilon > 0.
C11_RectangularSeriesSquares ==
    (fn = "rectangularSeries" /\ pc = "done") =>
        /\ DOMAIN S = 0 .. M - 1
        /\ \A m \in 0 .. M - 1 :
              /\ DOMAIN S[m] = 0 .. N - 1
              /\ \A n \in 0 .. N - 1 :
                    Squared(S[m][n]) =
                        RAdd(RDiv(AxisSquare(boundary_conditions[1],
                                             boundary_conditions[2], m), epsilon),
                             RMul(AxisSquare(boundary_conditions[3],
                                             boundary_conditions[4], n), epsilon))

C11_Witness ==
    /\ fn = "rectangularSeries" /\ pc = "done"
    /\ M >= 2 /\ N >= 3
    /\ epsilon = Int2R(2)
    /\ boundary_conditions = <<TRUE, FALSE, FALSE, FALSE>>
    /\ Squared(S[1][2]) = Rat(73, 8)

(***************************************************************************)
(* Properties of circularSeries.                                           *)
(***************************************************************************)
\* the published zeros of J_0
PublishedJ0Zeros == <<Rat(24048, 10000), Rat(55201, 10000), Rat(86537, 10000)>>

\* sqrt(pi) = 1.77245385.. lies between these two.
SqrtPiLower == Rat(17724, 10000)
SqrtPiUpper == Rat(17725, 10000)

\* An entry of circularSeries times sqrt(pi): the zero it was made from.
TimesSqrtPi(entry) == <<entry[1], entry[2]>>

\* The interval in which the value of an entry lies.
ValueLower(entry) ==
    IF entry = Zero THEN Zero ELSE RDiv(TimesSqrtPi(entry), SqrtPiUpper)
ValueUpper(entry) ==
    IF entry = Zero THEN Zero ELSE RDiv(TimesSqrtPi(entry), SqrtPiLower)

\* Every value of the interval is within tol of the target.
Near(lower, upper, target, tol) ==
    RLe(RSub(target, tol), lower) /\ RLe(upper, RAdd(target, tol))

\* Some value of the interval is within tol of the target.
MayBeNear(lower, upper, target, tol) ==
    RLe(lower, RAdd(target, tol)) /\ RLe(RSub(target, tol), upper)

FirstThree == 0 .. (IF N < 3 THEN N ELSE 3) - 1

\* C12 as stated: with fixed boundary the first three entries of row 0 of
\* circularSeries are the zeros of J_0 themselves: 2.4048, 5.5201 and 8.6537
\* within 1e-3.
C12_Row0IsTheZerosOfJ0 ==
    (fn = "circularSeries" /\ pc = "done" /\ boundary_conditions = TRUE /\ M >= 1) =>
        \A n \in FirstThree :
            MayBeNear(ValueLower(S[0][n]), ValueUpper(S[0][n]),
                      PublishedJ0Zeros[n + 1], Rat(1, 1000))

\* C12 amended: with fixed boundary the first three entries of row 0 of
\* circularSeries are the zeros of J_0 divided by sqrt(pi): multiplied by
\* sqrt(pi) they match 2.4048, 5.5201 and 8.6537 (here within 5e-4, the
\* tables being rounded to 5e-4), and entry [0][0] is 1.3568 within 1e-3.
\* The earlier calculateCircularSeries returns the zeros themselves.
C12_Row0IsTheZerosOverSqrtPi ==
    /\ (fn = "circularSeries" /\ pc = "done" /\ boundary_conditions = TRUE /\ M >= 1) =>
          /\ \A n \in FirstThree :
                Near(TimesSqrtPi(S[0][n]), TimesSqrtPi(S[0][n]),
                     PublishedJ0Zeros[n + 1], Rat(1, 2000))
          /\ N >= 1 =>
                Near(ValueLower(S[0][0]), ValueUpper(S[0][0]), Rat(13568, 10000),
                     Rat(1, 1000))
    /\ (fn = "calculateCircularSeries" /\ pc = "done" /\ N >= 1) =>
          \A i \in 0 .. (IF M < 3 THEN M ELSE 3) - 1 :
              Near(S[0][i], S[0][i], PublishedJ0Zeros[i + 1], Rat(1, 2000))

C12_Witness ==
    /\ fn = "circularSeries" /\ pc = "done" /\ boundary_conditions = TRUE
    /\ M >= 1 /\ N >= 3
    /\ S[0][2] = DivSqrtPi(Rat(8654, 1000))
    /\ ~MayBeNear(ValueLower(S[0][0]), ValueUpper(S[0][0]), Rat(24048, 10000), Rat(1, 1000))

\* The positive zeros of J'_m, as tabulated.
JPrimeZeros(m) == {Rat(JPrimeZeroTable[m + 1][i], 1000) : i \in 1 .. 5}

\* C13: with free boundary circularSeries(M, N, free)[0][0] is exactly 0 and
\* no root is searched for it (the search would find no change of sign and
\* raise); every other entry is a zero of J'_m, divided by sqrt(pi), taken
\* from the bracket between the previous and the next zero of J_m, and is
\* strictly positive; circularCymatics with free boundary, m = 0 and n < 1
\* interpolates from 0 as the lower zero.
C13_RigidBodyModeIsZero ==
    /\ fn \in {"circularSeries", "circularCymatics"} => pc # "throws"
    /\ (fn = "circularSeries" /\ pc = "done" /\ boundary_conditions = FALSE) =>
          \A m \in 0 .. M - 1 : \A n \in 0 .. N - 1 :
              IF m = 0 /\ n = 0
              THEN S[m][n] = Zero
              ELSE /\ S[m][n] # Zero
                   /\ RLt(Zero, TimesSqrtPi(S[m][n]))
                   /\ TimesSqrtPi(S[m][n]) \in JPrimeZeros(m)
                   /\ n > 0 => RLt(cyl_bessel_j_zero(Int2R(m), n), TimesSqrtPi(S[m][n]))
                   /\ RLt(TimesSqrtPi(S[m][n]), cyl_bessel_j_zero(Int2R(m), n + 1))
    /\ (/\ fn = "circularCymatics" /\ pc = "done" /\ boundary_conditions = FALSE
        /\ mode_m = Zero /\ RLt(mode_n, One)) =>
          z_mn = RMul(Rat(JPrimeZeroTable[1][1], 1000), mode_n)

C13_Witness ==
    /\ fn = "circularSeries" /\ pc = "done" /\ boundary_conditions = FALSE
    /\ M >= 2 /\ N >= 2
    /\ S[0][0] = Zero
    /\ S[0][1] = DivSqrtPi(Rat(3832, 1000))
    /\ S[1][0] = DivSqrtPi(Rat(1841, 1000))

\* a <= b for two entries of the series of the function executed
EntryLe(a, b) ==
    CASE fn = "linearSeries" -> RLe(a, b)
      [] fn = "rectangularSeries" -> RLe(Squared(a), Squared(b))
      [] fn = "equilateralTriangleSeries" -> Squared(a) <= Squared(b)
      [] fn = "circularSeries" -> RLe(TimesSqrtPi(a), TimesSqrtPi(b))

fdtdButB == <<u_0, u_1, arg_u_0, arg_u_1, c_0, c_1, c_2, w, readout, x_range, y_range>>

\* wave_equation.hpp lines 123 and 142: std::abs(U[x]) < tolerance ? 1 : 0.
Threshold_Inclusive(value, tol) == IF RLe(RAbs(value), tol) THEN 1 ELSE 0

Threshold(value, tol) == IF RLt(RAbs(value), tol) THEN 1 ELSE 0

\* wave_equation.hpp lines 121-124.
ChladniPattern1D(field, tol) == [x \in DOMAIN field |-> Threshold(field[x], tol)]

\* wave_equation.hpp lines 138-144, U[0] existing.
ChladniPattern2D(field, tol) ==
    [x \in 0 .. size(field) - 1 |->
        [y \in 0 .. size(field[0]) - 1 |-> Threshold(field[x][y], tol)]]

Call_ChladniPattern1D ==
    /\ fn = "ChladniPattern1D"
    /\ pc = "start"
    /\ B' = ChladniPattern1D(U, tolerance)
    /\ pc' = "done"
    /\ UNCHANGED <<fn, T, t, waveform, fdtdButB, synthVars, modeVars, extraVars>>

Call_ChladniPattern2D ==
    /\ fn = "ChladniPattern2D"
    /\ pc = "start"
    /\ IF size(U) = 0
         THEN \* U[0] of an empty vector: the behaviour is undefined. The read
              \* faults, or it yields some Y, with which the row prototype is
              \* built (or is too long to build) and no row is made.
              /\ pc' \in {"crashed", "throws", "done"}
              /\ B' = <<>>
         ELSE /\ B' = ChladniPattern2D(U, tolerance)
              /\ pc' = "done"
    /\ UNCHANGED <<fn, T, t, waveform, fdtdButB, synthVars, modeVars, extraVars>>

(***************************************************************************)
(* The inputs of the Chladni patterns.                                     *)
(***************************************************************************)
FieldValues == {Rat(-1, 2), Rat(-1, 10), Zero, Rat(1, 10)}
Tolerances == {Rat(-1, 10), Zero, Rat(1, 10), Rat(1, 2)}
FieldShapes == {<<0, 0>>, <<1, 0>>, <<2, 0>>, <<1, 1>>, <<1, 2>>, <<2, 1>>, <<2, 2>>}

InitChladni ==
    /\ FDTDIdle /\ SynthIdle /\ ModeArgsIdle
    /\ S = <<>> /\ A = <<>> /\ z_mn = <<>>
    /\ r_polar = <<>> /\ theta = <<>> /\ InitialConditionsIdle /\ GeometryIdle /\ bracket = <<>> /\ pending = {}
    /\ pc = "start"
    /\ T = 0 /\ t = 0 /\ waveform = <<>>
    /\ tolerance \in Tolerances
    /\ \/ /\ fn = "ChladniPattern1D"
          /\ \E cells \in 0 .. MaxCells : U \in [0 .. cells - 1 -> FieldValues]
       \/ /\ fn = "ChladniPattern2D"
          /\ \E shape \in FieldShapes :
                U \in [0 .. shape[1] - 1 -> [0 .. shape[2] - 1 -> FieldValues]]

NextChladni == Call_ChladniPattern1D \/ Call_ChladniPattern2D

SpecChladni == InitChladni /\ [][NextChladni]_vars

(***************************************************************************)
(* Properties of the Chladni patterns.                                     *)
(***************************************************************************)
\* C15: the grid returned by ChladniPattern1D and ChladniPattern2D has the
\* shape of the field, and a cell of it is 1 exactly when the absolute value
\* of the field there is strictly below the tolerance and 0 otherwise; a
\* tolerance <= 0 gives an all-zero grid.
C15_ChladniThreshold ==
    /\ (fn = "ChladniPattern1D" /\ pc = "done") =>
          /\ DOMAIN B = DOMAIN U
          /\ \A x \in DOMAIN U :
                /\ B[x] \in {0, 1}
                /\ B[x] = 1 <=> RLt(RAbs(U[x]), tolerance)
                /\ RLe(tolerance, Zero) => B[x] = 0
    /\ (fn = "ChladniPattern2D" /\ pc = "done") =>
          /\ DOMAIN B = DOMAIN U
          /\ \A x \in DOMAIN U :
                /\ DOMAIN B[x] = DOMAIN U[x]
                /\ \A y \in DOMAIN U[x] :
                      /\ B[x][y] \in {0, 1}
                      /\ B[x][y] = 1 <=> RLt(RAbs(U[x][y]), tolerance)
                      /\ RLe(tolerance, Zero) => B[x][y] = 0

C15_Witness ==
    /\ fn = "ChladniPattern2D" /\ pc = "done"
    /\ tolerance = Rat(1, 10)
    /\ size(U) = 2 /\ size(U[0]) = 2
    /\ U[0][0] = Rat(1, 10) /\ B[0][0] = 0
    /\ U[0][1] = Zero /\ B[0][1] = 1
    /\ U[1][0] = Rat(-1, 10) /\ B[1][0] = 0
    /\ U[1][1] = Rat(-1, 2) /\ B[1][1] = 0

(***************************************************************************)
(* Properties of circularCymatics.                                         *)
(***************************************************************************)
\* The position 2 i / H - 1 to which the index i is mapped.
Mapped(i) == Rat(2 * i - H, H)

\* The square of the radius of the cell (x, y).
RadiusSquared(x, y) == RAdd(RMul(Mapped(x), Mapped(x)), RMul(Mapped(y), Mapped(y)))

\* C16: circularCymatics(m, n, H) returns an H-by-H grid in which every cell
\* whose mapped position (2x/H - 1, 2y/H - 1) has radius > 1 is exactly 0,
\* and exactly the cells with radius <= 1 are assigned the field value.
C16_OutsideTheDiskIsZero ==
    (fn = "circularCymatics" /\ pc = "done") =>
        /\ DOMAIN U = 0 .. H - 1
        /\ \A x \in 0 .. H - 1 :
              /\ DOMAIN U[x] = 0 .. H - 1
              /\ \A y \in 0 .. H - 1 :
                    IF RLt(One, RadiusSquared(x, y))
                    THEN U[x][y] = Zero
                    ELSE U[x][y] = FieldValue(mode_m, z_mn, Mapped(x), Mapped(y))

C16_Witness ==
    /\ fn = "circularCymatics" /\ pc = "done"
    /\ H = 4
    /\ RadiusSquared(0, 0) = Int2R(2) /\ U[0][0] = Zero
    /\ RadiusSquared(0, 2) = One /\ U[0][2] # Zero
    /\ RadiusSquared(2, 2) = Zero /\ U[2][2] # Zero
    /\ U[3][3] # Zero /\ U[0][1] = Zero

\* The zero crossing of index i (an integer) at order m: the zero of J_m of
\* rank i + 1 with fixed boundary; with free boundary 0 for the rigid body
\* mode and else the zero of J'_m that follows it.
ZeroAtIndex(m, i, bc) ==
    IF bc THEN cyl_bessel_j_zero(m, i + 1)
    ELSE IF m = Zero
    THEN (IF i = 0 THEN Zero ELSE Rat(JPrimeZeroTable[1][i], 1000))
    ELSE Rat(JPrimeZeroTable[m[1] + 1][i + 1], 1000)

\* C17: the zero crossing z_mn that circularCymatics uses is, for both
\* boundary conditions, z_floor + (z_ceil - z_floor) * (n - floor(n)), z_floor
\* and z_ceil being the zero crossings at the two integer indices nearest to
\* n (at the order m given); at integer (m, n) it is the zero that
\* circularSeries uses for entry [m][n], that entry times sqrt(pi).
C17_ZeroCrossingIsInterpolated ==
    (fn = "circularCymatics" /\ pc = "done") =>
        /\ LET z_floor == ZeroAtIndex(mode_m, Floor(mode_n), boundary_conditions)
               z_ceil == ZeroAtIndex(mode_m, Ceil(mode_n), boundary_conditions)
           IN  z_mn = RAdd(z_floor, RMul(RSub(z_ceil, z_floor),
                                         RSub(mode_n, Int2R(Floor(mode_n)))))
        /\ (mode_m[2] = 1 /\ mode_n[2] = 1) =>
              z_mn = TimesSqrtPi(circularSeries(mode_m[1] + 1, mode_n[1] + 1,
                                                boundary_conditions)[mode_m[1]][mode_n[1]])

C17_Witness ==
    /\ fn = "circularCymatics" /\ pc = "done" /\ boundary_conditions = FALSE
    /\ mode_m = One /\ mode_n = Rat(3, 2)
    /\ z_mn = Rat(13867, 2000)
    /\ z_mn # ZeroAtIndex(mode_m, 1, FALSE) /\ z_mn # ZeroAtIndex(mode_m, 2, FALSE)

(***************************************************************************)
(* circularAmplitudes. The strike angle theta is held in units of pi and   *)
(* drawn from the multiples of pi/2, where sqrt2 * sin(m theta + pi/4) is  *)
(* exactly 1 or -1; the value of the Bessel function is kept as its order  *)
(* and its argument.                                                       *)
(***************************************************************************)
\* circular_modes.hpp line 48: angular.
Angular(m, angle) ==
    IF m = 0 THEN One
    ELSE LET eighths == RAdd(RMul(Int2R(4 * m), angle), One)
         IN  IF eighths[1] % 8 \in {1, 3} THEN One ELSE Int2R(-1)

\* circular_modes.hpp lines 50-51: A[m][n].
Amplitude(m, lambda, radius, angle) ==
    <<"J_m(lambda r sqrt(pi)) angular", m, RMul(TimesSqrtPi(lambda), radius),
      Angular(m, angle)>>

circularAmplitudes(radius, angle, series) ==
    [m \in 0 .. size(series) - 1 |->
        [n \in 0 .. size(series[0]) - 1 |->
            Amplitude(m, series[m][n], radius, angle)]]

Call_circularAmplitudes ==
    /\ fn = "circularAmplitudes"
    /\ pc = "start"
    /\ IF size(S) = 0
         THEN \* S[0] of an empty vector: the behaviour is undefined. The read
              \* faults, or it yields some N, with which the row prototype is
              \* built (or is too long to build) and no row is made.
              /\ pc' \in {"crashed", "throws", "done"}
              /\ A' = <<>>
         ELSE /\ A' = circularAmplitudes(r_polar, theta, S)
              /\ pc' = "done"
    /\ UNCHANGED <<fn, T, t, waveform, fdtdVars, synthVars, modeArgs, S, z_mn, U,
                   extraVars>>

SeriesShapes == {<<0, 0>>, <<1, 0>>, <<1, 1>>, <<2, 1>>, <<2, 2>>}
StrikeRadii == {Zero, Rat(1, 2), One}
StrikeAngles == {Zero, Rat(1, 2), One, Rat(3, 2)}

InitAmplitudes ==
    /\ FDTDIdle /\ SynthIdle /\ ModeArgsIdle
    /\ A = <<>> /\ z_mn = <<>> /\ U = <<>>
    /\ tolerance = <<>> /\ InitialConditionsIdle /\ GeometryIdle /\ bracket = <<>> /\ pending = {}
    /\ pc = "start"
    /\ T = 0 /\ t = 0 /\ waveform = <<>>
    /\ fn = "circularAmplitudes"
    /\ r_polar \in StrikeRadii
    /\ theta \in StrikeAngles
    /\ \E shape \in SeriesShapes, bc \in BOOLEAN :
          S = circularSeries(shape[1], shape[2], bc)

(***************************************************************************)
(* The calls that take the number of modes or of cells from the size of an *)
(* argument: the additive synthesis, circularAmplitudes and the Chladni    *)
(* patterns.                                                               *)
(***************************************************************************)
InitShapes == InitSynth \/ InitChladni \/ InitAmplitudes

NextShapes == NextSynth \/ NextChladni \/ Call_circularAmplitudes

SpecShapes == InitShapes /\ [][NextShapes]_vars

NoModes ==
    /\ fn \in {"AdditiveSynthesis1D", "AdditiveSynthesis2D"}
    /\ IF size(F) = 0 THEN TRUE
       ELSE fn = "AdditiveSynthesis2D" /\ size(F[0]) = 0

\* C18: a call without modes is no error. AdditiveSynthesis1D with N = 0 and
\* AdditiveSynthesis2D with M = 0 or N = 0 return T samples that are all 0;
\* circularAmplitudes and ChladniPattern2D return the empty grid for an empty
\* grid; none of them fails or reads outside its argument.
C18_NoModesIsNoError ==
    /\ (NoModes /\ pc # "start") =>
          /\ pc \in {"loop", "done"}
          /\ DOMAIN waveform = 0 .. T - 1
          /\ pc = "done" => \A i \in 0 .. T - 1 : waveform[i] = Zero
    /\ (fn = "circularAmplitudes" /\ size(S) = 0 /\ pc # "start") =>
          (pc = "done" /\ A = <<>>)
    /\ (fn = "ChladniPattern2D" /\ size(U) = 0 /\ pc # "start") =>
          (pc = "done" /\ B = <<>>)

(***************************************************************************)
(* The initial conditions: raisedCosine1D, raisedCosine2D,                 *)
(* raisedTriangle1D and raisedTriangle2D. A quotient of doubles whose      *)
(* divisor is 0 is NaN or an infinity; the cosine is kept as its argument, *)
(* and std::hypot as the sum of the squares.                               *)
(***************************************************************************)
\* NaN and the infinities of IEEE 754, as quotients by 0
NaN == <<0, 0>>
PlusInfinity == <<1, 0>>
MinusInfinity == <<-1, 0>>

\* IEEE 754 division of two finite doubles.
FDiv(p, q) ==
    IF q # Zero THEN RDiv(p, q)
    ELSE IF p = Zero THEN NaN
    ELSE IF RLt(Zero, p) THEN PlusInfinity ELSE MinusInfinity

\* IEEE 754 product, of the values the triangles hold: finite numbers and NaN.
FMul(p, q) == IF p = NaN \/ q = NaN THEN NaN ELSE RMul(p, q)

IsFinite(v) == v[2] # 0

\* initial_conditions.hpp lines 38, 72, 73 and 110: inv_X as 1 / size.
InvX_PerCell(length) == IF length > 1 THEN Rat(1, length) ELSE Zero

\* initial_conditions.hpp lines 38, 72, 73 and 110: inv_X.
InvX(length) == IF length > 1 THEN Rat(1, length - 1) ELSE Zero

\* initial_conditions.hpp line 42: 0.5 * (1. + cos(pi * x_diff / sigma)).
RaisedCosineValue(x_diff, variance) ==
    LET q == RDiv(x_diff, variance)
    IN  IF q[2] \in {1, 2} THEN RMul(Rat(1, 2), RAdd(One, CosPi(q)))
        ELSE <<q[1], q[2], "0.5 * (1 + cos(pi * q))">>

\* initial_conditions.hpp lines 36-46.
raisedCosine1D(centre, variance, length) ==
    [i \in 0 .. length - 1 |->
        IF RLt(Zero, variance)
        THEN LET x_diff == RAbs(RSub(RMul(Int2R(i), InvX(length)), centre))
             IN  IF RLe(x_diff, variance) THEN RaisedCosineValue(x_diff, variance)
                 ELSE Zero
        ELSE Zero]

\* initial_conditions.hpp line 79: 0.5 * (1. + cos(pi * l2_norm / sigma)).
RaisedCosineValue2D(l2_squared, variance) ==
    LET q == RDiv(l2_squared, RMul(variance, variance))
    IN  IF q \in {Zero, Rat(1, 4), One}
        THEN RMul(Rat(1, 2), RAdd(One, CosPi(IF q = Rat(1, 4) THEN Rat(1, 2) ELSE q)))
        ELSE <<q[1], q[2], "0.5 * (1 + cos(pi * sqrt(q)))">>

\* initial_conditions.hpp lines 70-84.
raisedCosine2D(centre, variance, length_X, length_Y) ==
    [i \in 0 .. length_X - 1 |->
        [j \in 0 .. length_Y - 1 |->
            IF RLt(Zero, variance)
            THEN LET x == RSub(RMul(Int2R(i), InvX(length_X)), centre.x)
                     y == RSub(RMul(Int2R(j), InvX(length_Y)), centre.y)
                     l2_squared == RAdd(RMul(x, x), RMul(y, y))
                 IN  IF RLe(l2_squared, RMul(variance, variance))
                     THEN RaisedCosineValue2D(l2_squared, variance)
                     ELSE Zero
            ELSE Zero]]

\* initial_conditions.hpp lines 107-117.
raisedTriangle1D(centre, length_a, length_b, length) ==
    LET a == RSub(centre, RMax(length_a, Zero))
        b == RAdd(centre, RMax(length_b, Zero))
    IN  [i \in 0 .. length - 1 |->
            LET x == RMul(Int2R(i), InvX(length))
            IN  IF RLe(a, x) /\ RLe(x, centre)
                THEN FDiv(RSub(x, a), RSub(centre, a))
                ELSE IF RLt(centre, x) /\ RLe(x, b)
                THEN RSub(One, FDiv(RSub(x, centre), RSub(b, centre)))
                ELSE Zero]

\* initial_conditions.hpp lines 143-149.
raisedTriangle2D(centre, length_xa, length_xb, length_ya, length_yb, length_X, length_Y) ==
    LET x_t == raisedTriangle1D(centre.x, length_xa, length_xb, length_X)
        y_t == raisedTriangle1D(centre.y, length_ya, length_yb, length_Y)
    IN  [x \in 0 .. length_X - 1 |-> [y \in 0 .. length_Y - 1 |-> FMul(x_t[x], y_t[y])]]

initialArgs == <<mu, sigma, x_a, x_b, y_a, y_b, size_X, size_Y>>
notInitialConditions ==
    <<T, t, waveform, fdtdVars, synthVars, modeVars, tolerance, r_polar, theta,
      geometryVars, bracket, pending>>

Call_raisedCosine1D ==
    /\ fn = "raisedCosine1D"
    /\ pc = "start"
    /\ raised_cosine' = raisedCosine1D(mu, sigma, size_X)
    /\ pc' = "done"
    /\ UNCHANGED <<fn, initialArgs, triangle, notInitialConditions>>

Call_raisedCosine2D ==
    /\ fn = "raisedCosine2D"
    /\ pc = "start"
    /\ raised_cosine' = raisedCosine2D(mu, sigma, size_X, size_Y)
    /\ pc' = "done"
    /\ UNCHANGED <<fn, initialArgs, triangle, notInitialConditions>>

Call_raisedTriangle1D ==
    /\ fn = "raisedTriangle1D"
    /\ pc = "start"
    /\ triangle' = raisedTriangle1D(mu, x_a, x_b, size_X)
    /\ pc' = "done"
    /\ UNCHANGED <<fn, initialArgs, raised_cosine, notInitialConditions>>

Call_raisedTriangle2D ==
    /\ fn = "raisedTriangle2D"
    /\ pc = "start"
    /\ triangle' = raisedTriangle2D(mu, x_a, x_b, y_a, y_b, size_X, size_Y)
    /\ pc' = "done"
    /\ UNCHANGED <<fn, initialArgs, raised_cosine, notInitialConditions>>

Centres == {Zero, Rat(1, 2), One}
Variances == {Rat(-1, 2), Zero, Rat(1, 2)}

\* test_fdtd.cpp lines 19-32: the calls of the test.
IsTestCall ==
    /\ size_X = 11
    /\ \/ /\ fn = "raisedCosine1D"
          /\ mu = Rat(1, 2) /\ sigma = Rat(1, 10)
          /\ x_a = <<>> /\ x_b = <<>> /\ y_a = <<>> /\ y_b = <<>> /\ size_Y = 0
       \/ /\ fn = "raisedCosine2D"
          /\ mu = [x |-> Rat(1, 2), y |-> Rat(1, 2)] /\ sigma = Rat(1, 10)
          /\ x_a = <<>> /\ x_b = <<>> /\ y_a = <<>> /\ y_b = <<>> /\ size_Y = 11
       \/ /\ fn = "raisedTriangle1D"
          /\ mu = Rat(1, 2) /\ sigma = <<>>
          /\ x_a = Rat(1, 10) /\ x_b = Rat(1, 10)
          /\ y_a = <<>> /\ y_b = <<>> /\ size_Y = 0
       \/ /\ fn = "raisedTriangle2D"
          /\ mu = [x |-> Rat(1, 2), y |-> Rat(1, 2)] /\ sigma = <<>>
          /\ x_a = Rat(1, 10) /\ x_b = Rat(1, 10)
          /\ y_a = Rat(1, 10) /\ y_b = Rat(1, 10) /\ size_Y = 11

InitialConditionArgs ==
    /\ size_X \in 0 .. MaxSize
    /\ \/ /\ fn = "raisedCosine1D"
          /\ mu \in Centres /\ sigma \in Variances
          /\ x_a = <<>> /\ x_b = <<>> /\ y_a = <<>> /\ y_b = <<>> /\ size_Y = 0
       \/ /\ fn = "raisedCosine2D"
          /\ mu \in [x : Centres, y : Centres] /\ sigma \in Variances
          /\ x_a = <<>> /\ x_b = <<>> /\ y_a = <<>> /\ y_b = <<>>
          /\ size_Y \in 0 .. MaxSize
       \/ /\ fn = "raisedTriangle1D"
          /\ mu \in Centres /\ sigma = <<>>
          /\ x_a \in Variances /\ x_b \in Variances
          /\ y_a = <<>> /\ y_b = <<>> /\ size_Y = 0
       \/ /\ fn = "raisedTriangle2D"
          /\ mu \in [x : Centres, y : Centres] /\ sigma = <<>>
          /\ x_a \in Variances /\ x_b \in Variances
          /\ y_a \in Variances /\ y_b \in Variances
          /\ size_Y \in 0 .. MaxSize

InitInitialConditions ==
    /\ FDTDIdle /\ SynthIdle /\ ModesIdle /\ GeometryIdle /\ bracket = <<>> /\ pending = {}
    /\ tolerance = <<>> /\ r_polar = <<>> /\ theta = <<>>
    /\ pc = "start"
    /\ T = 0 /\ t = 0 /\ waveform = <<>>
    /\ raised_cosine = <<>> /\ triangle = <<>>
    /\ \/ IsTestCall
       \/ InitialConditionArgs

NextInitialConditions ==
    \/ Call_raisedCosine1D \/ Call_raisedCosine2D
    \/ Call_raisedTriangle1D \/ Call_raisedTriangle2D

SpecInitialConditions == InitInitialConditions /\ [][NextInitialConditions]_vars

(***************************************************************************)
(* Properties of the initial conditions.                                   *)
(***************************************************************************)
NoVariance(v) == RLe(v, Zero)

\* C19: without variance the initial conditions are still grids of the size
\* asked for whose every cell is a finite number: raisedCosine1D and
\* raisedCosine2D with sigma <= 0 return zeros only, raisedTriangle1D with
\* x_a <= 0 and x_b <= 0 and raisedTriangle2D with, likewise, y_a <= 0 and
\* y_b <= 0 return finite cells, for every mu and every size.
C19_NoVarianceIsFinite ==
    /\ (fn = "raisedCosine1D" /\ pc = "done" /\ NoVariance(sigma)) =>
          raised_cosine = [i \in 0 .. size_X - 1 |-> Zero]
    /\ (fn = "raisedCosine2D" /\ pc = "done" /\ NoVariance(sigma)) =>
          raised_cosine = [i \in 0 .. size_X - 1 |-> [j \in 0 .. size_Y - 1 |-> Zero]]
    /\ (fn = "raisedTriangle1D" /\ pc = "done" /\ NoVariance(x_a) /\ NoVariance(x_b)) =>
          /\ DOMAIN triangle = 0 .. size_X - 1
          /\ \A i \in 0 .. size_X - 1 : IsFinite(triangle[i])
    /\ (fn = "raisedTriangle2D" /\ pc = "done" /\ NoVariance(x_a) /\ NoVariance(x_b)
            /\ NoVariance(y_a) /\ NoVariance(y_b)) =>
          /\ DOMAIN triangle = 0 .. size_X - 1
          /\ \A i \in 0 .. size_X - 1 :
                /\ DOMAIN triangle[i] = 0 .. size_Y - 1
                /\ \A j \in 0 .. size_Y - 1 : IsFinite(triangle[i][j])

(***************************************************************************)
(* Properties of the sample count of the FDTD.                             *)
(***************************************************************************)
\* the grids (and the mask) the caller gave agree in shape
SameShapes ==
    IF fn = "FDTDWaveform1D" THEN size(arg_u_0) = size(arg_u_1)
    ELSE Shape(arg_u_0) = Shape(arg_u_1) /\ Shape(arg_u_0) = Shape(B)

\* C20: with grids that agree in shape FDTDWaveform1D and FDTDWaveform2D are
\* total in T: for every T >= 0, T = 0 and T = 1 included, they return T
\* samples after max(T - 2, 0) steps of the update, and write no sample of
\* index T or more.
C20_TotalInTheSampleCount ==
    (fn \in {"FDTDWaveform1D", "FDTDWaveform2D"} /\ pc # "start" /\ SameShapes) =>
        /\ pc \in {"loop", "done"}
        /\ DOMAIN waveform = 0 .. T - 1
        /\ pc = "done" => t - 2 = IF T > 2 THEN T - 2 ELSE 0

\* the normalised coordinate i / (size - 1) of cell i
Coordinate(i, length) == Rat(i, length - 1)

Modulus == 31
Multiplier == 3

\* generate_polygon.hpp line 51: random_engine.seed(seed).
Seeded(value) == IF value % Modulus = 0 THEN 1 ELSE value % Modulus

\* generate_polygon.hpp line 22: one step of the engine.
NextValue(engine) == (Multiplier * engine) % Modulus

\* the engine after a number of draws
RECURSIVE Discard(_, _)
Discard(engine, draws) ==
    IF draws = 0 THEN engine ELSE Discard(NextValue(engine), draws - 1)

\* generate_polygon.hpp line 23: bipolar_distribution, from the value drawn.
bipolar_distribution(value) == Rat(2 * value - Modulus, Modulus)

\* generate_polygon.hpp lines 24-25: uniform_sequence, from the value drawn.
uniform_sequence(value) == value - (Modulus \div 2)

\* the remainder of the division of longs in C++, which truncates
Remainder(value, divisor) ==
    IF value >= 0 THEN value % divisor ELSE -((-value) % divisor)

\* generate_polygon.hpp lines 59-60: std::sort of doubles.
SortDoubles(v) ==
    LET Rank(j) == Cardinality({l \in DOMAIN v :
                        RLt(v[l], v[j]) \/ (v[l] = v[j] /\ l < j)})
    IN  [i \in DOMAIN v |-> v[CHOOSE j \in DOMAIN v : Rank(j) = i]]

\* generate_polygon.hpp lines 62-80: the two chains, from index n on.
RECURSIVE Chains(_, _, _, _, _, _, _, _)
Chains(n, length, X_rand, Y_rand, chain, last_true, last_false, engine) ==
    IF ~(n < length) THEN [X |-> chain.X, Y |-> chain.Y, engine |-> engine]
    ELSE IF n # length - 1
    THEN LET drawn == NextValue(engine)
         IN  IF Remainder(uniform_sequence(drawn), 2) = 1
             THEN Chains(n + 1, length, X_rand, Y_rand,
                         [X |-> [chain.X EXCEPT ![n] = RSub(X_rand[n], X_rand[last_true])],
                          Y |-> [chain.Y EXCEPT ![n] = RSub(Y_rand[n], Y_rand[last_true])]],
                         n, last_false, drawn)
             ELSE Chains(n + 1, length, X_rand, Y_rand,
                         [X |-> [chain.X EXCEPT ![n] = RSub(X_rand[last_false], X_rand[n])],
                          Y |-> [chain.Y EXCEPT ![n] = RSub(Y_rand[last_false], Y_rand[n])]],
                         last_true, n, drawn)
    ELSE Chains(n + 1, length, X_rand, Y_rand,
                [X |-> [chain.X EXCEPT ![0] = RSub(X_rand[n], X_rand[last_true]),
                                       ![n] = RSub(X_rand[last_false], X_rand[n])],
                 Y |-> [chain.Y EXCEPT ![0] = RSub(Y_rand[n], Y_rand[last_true]),
                                       ![n] = RSub(Y_rand[last_false], Y_rand[n])]],
                last_true, last_false, engine)

\* generate_polygon.hpp line 82: shuffle, from index i on (one draw for each swap).
RECURSIVE Shuffle(_, _, _)
Shuffle(v, i, engine) ==
    IF ~(i < size(v)) THEN [v |-> v, engine |-> engine]
    ELSE LET drawn == NextValue(engine)
             j == drawn % (i + 1)
         IN  Shuffle([v EXCEPT ![i] = v[j], ![j] = v[i]], i + 1, drawn)

\* types.hpp line 32: theta = atan2(y, x), as the place of the angle among
\* (-pi, 0), 0, (0, pi) and pi.
Sector(q) ==
    IF RLt(q.y, Zero) THEN 1
    ELSE IF RLt(Zero, q.y) THEN 3
    ELSE IF RLe(Zero, q.x) THEN 2 ELSE 4

Cross(p1, p2) == RSub(RMul(p1.x, p2.y), RMul(p1.y, p2.x))

\* generate_polygon.hpp lines 85-87: p1.theta() < p2.theta().
ThetaLess(p1, p2) ==
    \/ Sector(p1) < Sector(p2)
    \/ Sector(p1) = Sector(p2) /\ Sector(p1) \in {1, 3} /\ RLt(Zero, Cross(p1, p2))

\* generate_polygon.hpp lines 85-87: sort by polar angle.
SortByTheta(v) ==
    LET Rank(j) == Cardinality({l \in DOMAIN v :
                        ThetaLess(v[l], v[j]) \/ (~ThetaLess(v[j], v[l]) /\ l < j)})
    IN  [i \in DOMAIN v |-> v[CHOOSE j \in DOMAIN v : Rank(j) = i]]

\* generate_polygon.hpp lines 92-96: the vectors laid end to end.
RECURSIVE EndToEnd(_, _)
EndToEnd(v, n) ==
    IF n = 0 THEN [x |-> Zero, y |-> Zero]
    ELSE LET before == EndToEnd(v, n - 1)
         IN  [x |-> RAdd(before.x, v[n - 1].x), y |-> RAdd(before.y, v[n - 1].y)]

\* std::min and std::max of a start value and the values of a set
MinFrom(start, values) ==
    CHOOSE least \in values \cup {start} : \A v \in values \cup {start} : RLe(least, v)
MaxFrom(start, values) ==
    CHOOSE most \in values \cup {start} : \A v \in values \cup {start} : RLe(v, most)

\* generate_polygon.hpp lines 31-111. x_min, x_max and y_min are read before
\* anything was assigned to them (line 89 initialises y_max only); indeterminate
\* is the record of the values they happen to hold.
generateConvexPolygon(length, engine, indeterminate) ==
    LET X_rand == SortDoubles([i \in 0 .. length - 1 |->
                      bipolar_distribution(Discard(engine, i + 1))])
        Y_rand == SortDoubles([i \in 0 .. length - 1 |->
                      bipolar_distribution(Discard(engine, length + i + 1))])
        chains == Chains(1, length, X_rand, Y_rand,
                         [X |-> [i \in 0 .. length - 1 |-> Zero],
                          Y |-> [i \in 0 .. length - 1 |-> Zero]],
                         0, 0, Discard(engine, 2 * length))
        shuffled == Shuffle(chains.Y, 1, chains.engine)
        vectors == SortByTheta([n \in 0 .. length - 1 |->
                       [x |-> chains.X[n], y |-> shuffled.v[n]]])
        laid == [n \in 0 .. length - 1 |-> EndToEnd(vectors, n)]
        x_min == MinFrom(indeterminate.x_min, {laid[n].x : n \in 0 .. length - 1})
        x_max == MaxFrom(indeterminate.x_max, {laid[n].x : n \in 0 .. length - 1})
        y_min == MinFrom(indeterminate.y_min, {laid[n].y : n \in 0 .. length - 1})
        y_max == MaxFrom(Zero, {laid[n].y : n \in 0 .. length - 1})
        x_shift == RSub(RMul(RSub(x_max, x_min), Rat(1, 2)), x_max)
        y_shift == RSub(RMul(RSub(y_max, y_min), Rat(1, 2)), y_max)
    IN  [P |-> [n \in 0 .. length - 1 |->
                   [x |-> RAdd(laid[n].x, x_shift), y |-> RAdd(laid[n].y, y_shift)]],
         engine |-> shuffled.engine]

Seeds == {0, 1, 2}
Indeterminate == [x_min : {Int2R(-2), Zero}, x_max : {Zero, Int2R(2)}, y_min : {Int2R(-2), Zero}]

notGeometry ==
    <<T, t, waveform, fdtdVars, synthVars, modeVars, tolerance, r_polar, theta,
      initialArgs, raised_cosine, triangle, bracket, pending>>

Call_generateConvexPolygon ==
    /\ fn = "generateConvexPolygon"
    /\ calls < MaxCalls
    /\ \E length \in 3 .. MaxVertices, given \in Seeds, indeterminate \in Indeterminate :
          LET returned == generateConvexPolygon(
                              length,
                              IF given # 0 THEN Seeded(given) ELSE random_engine,
                              indeterminate)
          IN  /\ polygon' = returned.P
              /\ random_engine' = returned.engine
              /\ seed' = given
              /\ generated' = IF given # 0 /\ <<length, given>> \notin DOMAIN generated
                              THEN generated @@ (<<length, given>> :> returned.P)
                              ELSE generated
    /\ calls' = calls + 1
    /\ pc' = "done"
    /\ UNCHANGED <<fn, point, answer, notGeometry>>

InitGenerators ==
    /\ FDTDIdle /\ SynthIdle /\ ModesIdle
    /\ tolerance = <<>> /\ r_polar = <<>> /\ theta = <<>> /\ InitialConditionsIdle
    /\ T = 0 /\ t = 0 /\ waveform = <<>>
    /\ fn = "generateConvexPolygon"
    /\ pc = "start"
    /\ random_engine \in 1 .. Modulus - 1
    /\ seed = 0 /\ calls = 0 /\ generated = <<>>
    /\ polygon = <<>> /\ point = <<>> /\ answer = <<>>
    /\ bracket = <<>> /\ pending = {}

NextGenerators == Call_generateConvexPolygon

SpecGenerators == InitGenerators /\ [][NextGenerators]_vars

\* C22: generateConvexPolygon is reproducible from its seed: a call with a
\* seed other than 0 returns the polygon that the first call with the same N
\* and the same seed returned, vertex for vertex, whatever calls came before
\* and whatever the state of the random engine was.
C22_SameSeedSamePolygon ==
    (fn = "generateConvexPolygon" /\ pc = "done" /\ seed # 0) =>
        polygon = generated[<<size(polygon), seed>>]

(***************************************************************************)
(* The triangle centres and the polygon properties: functions of a polygon *)
(* (and a point) whose vertices are drawn from a small integer lattice.    *)
(***************************************************************************)
\* triangle_centers.hpp lines 15-24: typeGuard lets the polygon pass.
IsTriangle(P) == ~(size(P) # 3)

\* triangle_centers.hpp lines 64-73.
circumcenter(P) ==
    \* a_sq, b_sq and c_sq are the code's a_2, b_2 and c_2
    LET a_sq == RAdd(RMul(P[0].x, P[0].x), RMul(P[0].y, P[0].y))
        b_sq == RAdd(RMul(P[1].x, P[1].x), RMul(P[1].y, P[1].y))
        c_sq == RAdd(RMul(P[2].x, P[2].x), RMul(P[2].y, P[2].y))
        d == RMul(Int2R(2),
                  RAdd(RAdd(RMul(P[0].x, RSub(P[1].y, P[2].y)),
                            RMul(P[1].x, RSub(P[2].y, P[0].y))),
                       RMul(P[2].x, RAdd(P[0].y, P[1].y))))
    IN  [x |-> FDiv(RAdd(RAdd(RMul(a_sq, RSub(P[1].y, P[2].y)),
                              RMul(b_sq, RSub(P[2].y, P[0].y))),
                         RMul(c_sq, RSub(P[0].y, P[1].y))), d),
         y |-> FDiv(RAdd(RAdd(RMul(a_sq, RSub(P[2].x, P[1].x)),
                              RMul(b_sq, RSub(P[0].x, P[2].x))),
                         RMul(c_sq, RSub(P[1].x, P[0].x))), d)]

notPolygons ==
    <<T, t, waveform, fdtdVars, synthVars, modeVars, tolerance, r_polar, theta,
      initialArgs, raised_cosine, triangle, random_engine, seed, calls, generated,
      bracket, pending>>

Call_circumcenter ==
    /\ fn = "circumcenter"
    /\ pc = "start"
    /\ IF IsTriangle(polygon)
         THEN /\ answer' = circumcenter(polygon)
              /\ pc' = "done"
         ELSE /\ pc' = "invalid_argument"
              /\ UNCHANGED answer
    /\ UNCHANGED <<fn, polygon, point, notPolygons>>

Lattice == {[x |-> Int2R(i), y |-> Int2R(j)] : i, j \in 0 .. MaxCoordinate}

\* test_geometry.cpp line 96: tri.
TestTriangle ==
    [n \in 0 .. 2 |-> IF n = 0 THEN [x |-> Zero, y |-> Zero]
                      ELSE IF n = 1 THEN [x |-> One, y |-> Zero]
                      ELSE [x |-> One, y |-> One]]

InitGeometryIdle ==
    /\ FDTDIdle /\ SynthIdle /\ ModesIdle
    /\ tolerance = <<>> /\ r_polar = <<>> /\ theta = <<>> /\ InitialConditionsIdle
    /\ T = 0 /\ t = 0 /\ waveform = <<>>
    /\ random_engine = 0 /\ seed = 0 /\ calls = 0 /\ generated = <<>>
    /\ bracket = <<>> /\ pending = {}
    /\ pc = "start"
    /\ answer = <<>>

InitCircumcenter ==
    /\ fn = "circumcenter"
    /\ point = <<>>
    /\ \E sides \in 2 .. 4 :
          polygon \in [0 .. sides - 1 -> IF sides = 3 THEN Lattice
                                         ELSE {q \in Lattice : q.x = q.y}]

(***************************************************************************)
(* geometry/polygon_properties.hpp: isConvex.  shapes/polygon_properties.hpp *)
(* holds the older isConvex of the same arithmetic: its crossProductZ(p,    *)
(* p_plus, p_minus) is crossProductZ(p_minus, p, p_plus) of this one, and   *)
(* it visits the vertices in the same order.                                *)
(***************************************************************************)
\* polygon_properties.hpp lines 32-34.
crossProductZ(a, b, c) ==
    RSub(RMul(RSub(b.x, a.x), RSub(c.y, b.y)), RMul(RSub(c.x, b.x), RSub(b.y, a.y)))

RECURSIVE ConvexFrom(_, _, _)
\* polygon_properties.hpp lines 39-44: the loop from vertex n on.
ConvexFrom(P, n, clockwise) ==
    IF n >= size(P) THEN TRUE
    ELSE IF RLt(crossProductZ(P[n - 1], P[n], P[(n + 1) % size(P)]), Zero) # clockwise
         THEN FALSE
    ELSE ConvexFrom(P, n + 1, clockwise)

\* polygon_properties.hpp lines 21-45.
isConvex(P) ==
    ConvexFrom(P, 1, RLt(crossProductZ(P[size(P) - 1], P[0], P[1]), Zero))

Call_isConvex ==
    /\ fn = "isConvex"
    /\ pc = "start"
    /\ answer' = isConvex(polygon)
    /\ pc' = "done"
    /\ UNCHANGED <<fn, polygon, point, notPolygons>>

\* the polygons of the tests (test_geometry.cpp lines 53-58) have 4 vertices
Polygons ==
    UNION {{P \in [0 .. sides - 1 -> Lattice] :
               \A i, j \in 0 .. sides - 1 : i # j => P[i] # P[j]} : sides \in 3 .. 4}

InitConvex ==
    /\ fn = "isConvex"
    /\ point = <<>>
    /\ polygon \in Polygons

(***************************************************************************)
(* geometry/lines.hpp and geometry/polygon_properties.hpp: the point in    *)
(* polygon tests.                                                          *)
(***************************************************************************)
\* types.hpp lines 47-59.
Line(a, b) == [a |-> a, b |-> b]

\* lines.hpp lines 68-74.
isColinear(a, b, c) ==
    RMul(RSub(c.y, b.y), RSub(b.x, a.x)) = RMul(RSub(b.y, a.y), RSub(c.x, b.x))

\* lines.hpp line 122: a comparison with NaN or an infinity as the code's
\* doubles make it.
InUnitInterval(u) == IsFinite(u) /\ RLe(Zero, u) /\ RLe(u, One)

\* lines.hpp lines 76-139: the type of the intersection (.first).
lineIntersection(la, lb) ==
    IF la.a = lb.a \/ la.a = lb.b THEN "vertex"
    ELSE IF la.b = lb.a \/ la.b = lb.b THEN "vertex"
    ELSE IF /\ isColinear(la.a, la.b, lb.a) /\ isColinear(la.b, lb.a, lb.b)
            /\ isColinear(lb.a, lb.b, la.a) /\ isColinear(lb.b, la.a, la.b)
         THEN "colinear"
    ELSE LET denominator == RSub(RMul(RSub(lb.b.y, lb.a.y), RSub(la.b.x, la.a.x)),
                                 RMul(RSub(lb.b.x, lb.a.x), RSub(la.b.y, la.a.y)))
             u_A == FDiv(RSub(RMul(RSub(lb.b.x, lb.a.x), RSub(la.a.y, lb.a.y)),
                              RMul(RSub(lb.b.y, lb.a.y), RSub(la.a.x, lb.a.x))),
                         denominator)
             u_B == FDiv(RSub(RMul(RSub(la.b.x, la.a.x), RSub(la.a.y, lb.a.y)),
                              RMul(RSub(la.b.y, la.a.y), RSub(la.a.x, lb.a.x))),
                         denominator)
         IN  IF InUnitInterval(u_A) /\ InUnitInterval(u_B)
               THEN LET at == [x |-> RAdd(la.a.x, RMul(u_A, RSub(la.b.x, la.a.x))),
                               y |-> RAdd(la.a.y, RMul(u_A, RSub(la.b.y, la.a.y)))]
                    IN  IF at \in {la.a, la.b, lb.a, lb.b} THEN "adjacent"
                        ELSE "intersect"
               ELSE "none"

\* geometry::isPointOnLine (called at polygon_properties.hpp line 95, tested
\* at test_geometry.cpp lines 118-150): p is on the segment, its two ends
\* included.
isPointOnLine(p, la) ==
    /\ RMul(RSub(la.b.x, la.a.x), RSub(p.y, la.a.y))
         = RMul(RSub(p.x, la.a.x), RSub(la.b.y, la.a.y))
    /\ RLe(p.x, RMax(la.a.x, la.b.x)) /\ RLe(p.y, RMax(la.a.y, la.b.y))
    /\ \/ RLe(la.a.x, p.x) \/ RLe(la.b.x, p.x)
    /\ \/ RLe(la.a.y, p.y) \/ RLe(la.b.y, p.y)

\* polygon_properties.hpp lines 53-55.
crossProductZPoint(a, b, p) ==
    RSub(RMul(RSub(b.x, a.x), RSub(p.y, a.y)), RMul(RSub(p.x, a.x), RSub(b.y, a.y)))

\* polygon_properties.hpp lines 47-72.
isPointInsideConvexPolygon(p, P) ==
    LET clockwise == IF RLt(Zero, crossProductZPoint(P[0], P[1], P[2]))
                       THEN Int2R(-1) ELSE One
    IN  IF \E n \in DOMAIN P : p.x = P[n].x /\ p.y = P[n].y THEN TRUE
        ELSE ~ \E n \in DOMAIN P :
                   RLt(Zero, RMul(crossProductZPoint(P[n], P[(n + 1) % size(P)], p),
                                  clockwise))

RECURSIVE MaxXFrom(_, _, _)
\* polygon_properties.hpp lines 83-84.
MaxXFrom(P, n, max_x) ==
    IF n >= size(P) THEN max_x ELSE MaxXFrom(P, n + 1, RMax(P[n].x, max_x))

RECURSIVE InsideFrom(_, _, _, _, _)
\* polygon_properties.hpp lines 88-103: the loop from edge n on.
InsideFrom(p, P, ray, n, count) ==
    IF n >= size(P) THEN count % 2 = 1
    ELSE IF P[n].x = p.x /\ P[n].y = p.y THEN TRUE
    ELSE IF isPointOnLine(p, Line(P[n], P[(n + 1) % size(P)])) THEN TRUE
    ELSE InsideFrom(p, P, ray, n + 1,
                    IF lineIntersection(ray, Line(P[n], P[(n + 1) % size(P)])) = "intersect"
                      THEN count + 1 ELSE count)

\* polygon_properties.hpp lines 74-104.
isPointInsidePolygon(p, P) ==
    InsideFrom(p, P, Line(p, [x |-> RAdd(MaxXFrom(P, 0, Zero), One), y |-> p.y]), 0, 0)

Call_isPointInsidePolygon ==
    /\ fn = "isPointInsidePolygon"
    /\ pc = "start"
    /\ answer' = isPointInsidePolygon(point, polygon)
    /\ pc' = "done"
    /\ UNCHANGED <<fn, polygon, point, notPolygons>>

Call_isPointInsideConvexPolygon ==
    /\ fn = "isPointInsideConvexPolygon"
    /\ pc = "start"
    /\ answer' = isPointInsideConvexPolygon(point, polygon)
    /\ pc' = "done"
    /\ UNCHANGED <<fn, polygon, point, notPolygons>>

(***************************************************************************)
(* The polygons and points the tests are called with: simple polygons, and *)
(* convex ones for isPointInsideConvexPolygon.                             *)
(***************************************************************************)
\* the sign of the turn a, b, c: 1 to the left, -1 to the right, 0 colinear
Turn(a, b, c) ==
    LET z == crossProductZPoint(a, b, c)
    IN  IF z = Zero THEN 0 ELSE IF RLt(Zero, z) THEN 1 ELSE -1

\* p is a point of the closed segment from a to b
Between(p, a, b) ==
    /\ Turn(a, b, p) = 0
    /\ RLe(p.x, RMax(a.x, b.x)) /\ RLe(p.y, RMax(a.y, b.y))
    /\ RLe(a.x, p.x) \/ RLe(b.x, p.x)
    /\ RLe(a.y, p.y) \/ RLe(b.y, p.y)

\* the closed segments a b and c d have a point in common
Meet(a, b, c, d) ==
    \/ Turn(a, b, c) * Turn(a, b, d) < 0 /\ Turn(c, d, a) * Turn(c, d, b) < 0
    \/ Between(c, a, b) \/ Between(d, a, b) \/ Between(a, c, d) \/ Between(b, c, d)

\* no two edges of P have a point in common but the vertex two consecutive
\* edges share
IsSimplePolygon(P) ==
    LET len == size(P)
    IN  \A i, j \in 0 .. len - 1 :
            i < j =>
                LET a == P[i]
                    b == P[(i + 1) % len]
                    c == P[j]
                    d == P[(j + 1) % len]
                IN  IF j = i + 1 THEN ~Between(a, c, d) /\ ~Between(d, a, b)
                    ELSE IF i = 0 /\ j = len - 1 THEN ~Between(b, c, d) /\ ~Between(c, a, b)
                    ELSE ~Meet(a, b, c, d)

\* P turns one way only
IsConvexPolygon(P) ==
    LET turns == {Turn(P[n], P[(n + 1) % size(P)], P[(n + 2) % size(P)]) : n \in DOMAIN P}
    IN  ~({1, -1} \subseteq turns)

SimplePolygons == {P \in Polygons : IsSimplePolygon(P)}

\* test_geometry.cpp lines 64-73 call with the point (0.5, 0.5)
Points == {[x |-> Rat(i, 2), y |-> Rat(j, 2)] : i, j \in 0 .. 2 * MaxCoordinate}

InitPointInsidePolygon ==
    /\ fn = "isPointInsidePolygon"
    /\ polygon \in SimplePolygons
    /\ point \in Points

InitPointInsideConvexPolygon ==
    /\ fn = "isPointInsideConvexPolygon"
    /\ polygon \in {P \in SimplePolygons : IsConvexPolygon(P)}
    /\ point \in Points

InitGeometry ==
    /\ InitGeometryIdle
    /\ \/ InitCircumcenter
       \/ InitConvex
       \/ InitPointInsidePolygon
       \/ InitPointInsideConvexPolygon

NextGeometry ==
    \/ Call_circumcenter
    \/ Call_isConvex
    \/ Call_isPointInsidePolygon
    \/ Call_isPointInsideConvexPolygon

SpecGeometry == InitGeometry /\ [][NextGeometry]_vars

(***************************************************************************)
(* Properties of the triangle centres.                                     *)
(***************************************************************************)
DistanceSquared(p1, p2) ==
    RAdd(RMul(RSub(p1.x, p2.x), RSub(p1.x, p2.x)),
         RMul(RSub(p1.y, p2.y), RSub(p1.y, p2.y)))

\* twice the signed area of the triangle: not 0 when it is not degenerate
SignedArea2(P) ==
    RSub(RMul(RSub(P[1].x, P[0].x), RSub(P[2].y, P[0].y)),
         RMul(RSub(P[2].x, P[0].x), RSub(P[1].y, P[0].y)))

\* C23: circumcenter(P) throws std::invalid_argument when P has not exactly
\* three vertices, and returns for every triangle that is not degenerate,
\* whatever its coordinates and its orientation, the point at one distance
\* from the three vertices.
C23_CircumcenterIsEquidistant ==
    (fn = "circumcenter" /\ pc # "start") =>
        IF size(polygon) # 3 THEN pc = "invalid_argument"
        ELSE /\ pc = "done"
             /\ SignedArea2(polygon) # Zero =>
                   /\ IsFinite(answer.x) /\ IsFinite(answer.y)
                   /\ DistanceSquared(answer, polygon[0]) = DistanceSquared(answer, polygon[1])
                   /\ DistanceSquared(answer, polygon[0]) = DistanceSquared(answer, polygon[2])

(***************************************************************************)
(* Properties of the polygon predicates.                                   *)
(***************************************************************************)
\* the same polygon, its vertices listed in the other direction
Reversed(P) == [n \in DOMAIN P |-> P[size(P) - 1 - n]]

\* C24: isConvex does not depend on the orientation of the vertices: the
\* answer for a polygon is the answer for the same polygon listed in the
\* other direction, also when three consecutive vertices are colinear.
C24_ConvexWhateverTheOrientation ==
    (fn = "isConvex" /\ pc = "done") => answer = isConvex(Reversed(polygon))

\* p is a point of an edge of P
OnBoundary(p, P) == \E n \in DOMAIN P : Between(p, P[n], P[(n + 1) % size(P)])

\* the edges of P that pass the height of p on its right, every edge taken
\* with its lower end and without its upper end, so that a vertex at the
\* height of p counts for one of its two edges when P passes the height there
\* and for both or none when P only touches it
CrossingsOnTheRight(p, P) ==
    {n \in DOMAIN P :
        LET a == P[n]
            b == P[(n + 1) % size(P)]
        IN  /\ RLt(p.y, a.y) # RLt(p.y, b.y)
            /\ Turn(a, b, p) = (IF RLt(a.y, b.y) THEN 1 ELSE -1)}

\* p is inside the simple polygon P or on its boundary
InsideOrOnBoundary(p, P) ==
    OnBoundary(p, P) \/ Cardinality(CrossingsOnTheRight(p, P)) % 2 = 1

\* C25: isPointInsidePolygon(p, P) is true exactly when p is inside the
\* simple polygon P or on its boundary, also when the horizontal ray from p
\* passes through a vertex of P, and on a convex polygon it gives the answer
\* of isPointInsideConvexPolygon(p, P).
C25_InsideExactlyWhenInside ==
    (fn = "isPointInsidePolygon" /\ pc = "done") =>
        /\ answer = InsideOrOnBoundary(point, polygon)
        /\ IsConvexPolygon(polygon) => answer = isPointInsideConvexPolygon(point, polygon)

(***************************************************************************)
(* physics/modes/circular_modes.hpp: circularSeries with the free boundary, *)
(* one iteration of its inner loop at a time. bracket holds the m and n of  *)
(* the next iteration, the lower_bound and upper_bound the last one left,   *)
(* and the brackets handed to boost::math::tools::bisect so far.            *)
(***************************************************************************)
\* the bounds stay as they are when the rigid body mode is skipped
NextBounds_SkipFirst(nu, n, lower_bound, upper_bound) ==
    IF nu = Zero /\ n = 0
    THEN [lower_bound |-> lower_bound, upper_bound |-> upper_bound]
    ELSE [lower_bound |-> IF n = 0 THEN DoubleEpsilon ELSE upper_bound,
          upper_bound |-> cyl_bessel_j_zero(nu, n + 1)]

\* circular_modes.hpp lines 160-161.
NextBounds(nu, n, lower_bound, upper_bound) ==
    [lower_bound |-> IF n = 0 THEN DoubleEpsilon ELSE upper_bound,
     upper_bound |-> cyl_bessel_j_zero(nu, n + 1)]

notBrackets ==
    <<T, t, waveform, modeArgs, A, z_mn, U, fdtdVars, synthVars,
      tolerance, r_polar, theta, mu, sigma, x_a, x_b, y_a, y_b, size_X, size_Y,
      raised_cosine, triangle, geometryVars, pending>>

\* circular_modes.hpp lines 145 and 155.
Enter_circularSeries ==
    /\ fn = "circularSeries"
    /\ pc = "start"
    /\ ~boundary_conditions
    /\ S' = [m \in 0 .. M - 1 |-> [n \in 0 .. N - 1 |-> Zero]]
    /\ bracket' = [m |-> 0, n |-> 0, lower_bound |-> Zero, upper_bound |-> Zero,
                   bisected |-> <<>>]
    /\ pc' = IF 0 < M /\ 0 < N THEN "loop" ELSE "done"
    /\ UNCHANGED <<fn, notBrackets>>

\* circular_modes.hpp lines 156-172: the iteration (bracket.m, bracket.n).
Step_circularSeries ==
    /\ fn = "circularSeries"
    /\ pc = "loop"
    /\ LET m == bracket.m
           n == bracket.n
           nu == Int2R(m)
           now == NextBounds(nu, n, bracket.lower_bound, bracket.upper_bound)
           rigid == m = 0 /\ n = 0
           root == bisect(nu, now.lower_bound, now.upper_bound)
           raised == ~rigid /\ root = "evaluation_error"
       IN  /\ bracket' =
                 [m |-> IF n + 1 < N THEN m ELSE m + 1,
                  n |-> IF n + 1 < N THEN n + 1 ELSE 0,
                  lower_bound |-> now.lower_bound,
                  upper_bound |-> now.upper_bound,
                  bisected |-> IF rigid THEN bracket.bisected
                               ELSE Append(bracket.bisected,
                                           [m |-> m, n |-> n,
                                            lower_bound |-> now.lower_bound,
                                            upper_bound |-> now.upper_bound])]
           /\ S' = IF rigid \/ raised THEN S ELSE [S EXCEPT ![m][n] = DivSqrtPi(root)]
           /\ pc' = IF raised THEN "throws"
                    ELSE IF n + 1 < N \/ m + 1 < M THEN "loop"
                    ELSE "done"
    /\ UNCHANGED <<fn, notBrackets>>

InitBrackets ==
    /\ FDTDIdle /\ SynthIdle /\ ExtraIdle
    /\ pc = "start"
    /\ T = 0 /\ t = 0 /\ waveform = <<>>
    /\ S = <<>> /\ A = <<>> /\ z_mn = <<>> /\ U = <<>>
    /\ mode_m = <<>> /\ mode_n = <<>> /\ H = 0
    /\ x_strike = <<>> /\ epsilon = <<>>
    /\ fn = "circularSeries"
    /\ boundary_conditions = FALSE
    /\ N \in 0 .. MaxN
    /\ M \in 0 .. MaxN

NextBrackets == Enter_circularSeries \/ Step_circularSeries

SpecBrackets == InitBrackets /\ [][NextBrackets]_vars

\* the Dirichlet zeros of the orders other than m
ZerosOfOtherOrders(m) ==
    {cyl_bessel_j_zero(Int2R(o), rank) :
        o \in (0 .. Len(JZeroTable) - 1) \ {m}, rank \in 1 .. Len(JZeroTable[1])}

\* C26: with the free boundary the brackets bisected are a fold along n
\* within each m: the bracket of n = 0 is [epsilon, j_(m,1)], the bracket of
\* n >= 1 has the upper bound of n - 1 of the same m as its lower bound and
\* j_(m,n+1) as its upper bound, the indices come in ascending order, the
\* skipped entry (0, 0) advances the bounds, and no bound of another m is
\* used.
C26_BracketsFoldAlongN ==
    (fn = "circularSeries" /\ bracket # <<>>) =>
        \A i \in 1 .. Len(bracket.bisected) :
            LET this == bracket.bisected[i]
            IN  /\ this.m * N + this.n = i
                /\ this.n < N
                /\ this.upper_bound = cyl_bessel_j_zero(Int2R(this.m), this.n + 1)
                /\ this.n = 0 => this.lower_bound = DoubleEpsilon
                /\ this.n >= 1 =>
                      /\ this.lower_bound = cyl_bessel_j_zero(Int2R(this.m), this.n)
                      /\ i > 1 => /\ bracket.bisected[i - 1].m = this.m
                                  /\ bracket.bisected[i - 1].n = this.n - 1
                                  /\ bracket.bisected[i - 1].upper_bound = this.lower_bound
                /\ {this.lower_bound, this.upper_bound} \cap ZerosOfOtherOrders(this.m) = {}

C26_Witness ==
    /\ fn = "circularSeries" /\ pc = "done"
    /\ M >= 2 /\ N >= 3
    /\ Len(bracket.bisected) = M * N - 1
    /\ bracket.bisected[1].m = 0 /\ bracket.bisected[1].n = 1
    /\ S = circularSeries(M, N, FALSE)

(***************************************************************************)
(* physics/fdtd/fdtd.hpp: one time step, one cell at a time. The functions  *)
(* FDTDUpdate1D and FDTDUpdate2D (lines 195-260) and the lambdas of the     *)
(* same names inside FDTDWaveform1D and FDTDWaveform2D (lines 65-70 and     *)
(* 166-178) visit the same cells with the same assignment; here the cells   *)
(* are visited in any order, as workers sharing the loop would.             *)
(***************************************************************************)
\* lines 214-215 (and 66): the cells the loop visits.
UpdateCells1D == 1 .. size(u_0) - 2

\* lines 248-251 (and 167-170): the cells the loops visit and the mask lets through.
UpdateCells2D ==
    {c \in (x_range[1] .. x_range[2]) \X (y_range[1] .. y_range[2]) : B[c[1]][c[2]] = 1}

notCells ==
    <<fn, u_1, arg_u_0, arg_u_1, B, c_0, c_1, c_2, w, readout, x_range, y_range,
      T, t, waveform, synthVars, modeVars,
      tolerance, r_polar, theta, mu, sigma, x_a, x_b, y_a, y_b, size_X, size_Y,
      raised_cosine, triangle, geometryVars, bracket>>

\* line 217 (68), for any cell not yet visited.
Cell_FDTDUpdate1D ==
    /\ fn = "FDTDUpdate1D"
    /\ pc = "update"
    /\ \E x \in pending :
          /\ u_0' = [u_0 EXCEPT ![x] = UpdateCell1D(u_0, u_1, x)]
          /\ pending' = pending \ {x}
          /\ pc' = IF pending = {x} THEN "done" ELSE "update"
    /\ UNCHANGED notCells

\* lines 253-255 (172-174), for any cell not yet visited.
Cell_FDTDUpdate2D ==
    /\ fn = "FDTDUpdate2D"
    /\ pc = "update"
    /\ \E c \in pending :
          /\ u_0' = [u_0 EXCEPT ![c[1]][c[2]] = UpdateCell2D(u_0, u_1, c[1], c[2])]
          /\ pending' = pending \ {c}
          /\ pc' = IF pending = {c} THEN "done" ELSE "update"
    /\ UNCHANGED notCells

InitCells1D ==
    /\ fn = "FDTDUpdate1D"
    /\ B = <<>> /\ x_range = <<>> /\ y_range = <<>>
    /\ u_0 \in {Zero1(Grid1D), Pattern1(Grid1D)}
    /\ u_1 \in {Impulse1(Grid1D, p) : p \in 0 .. Grid1D - 1} \cup {Pattern1(Grid1D)}
    /\ w = Rat(1, 2)
    /\ readout = Readout1D
    /\ pending = UpdateCells1D

InitCells2D ==
    /\ fn = "FDTDUpdate2D"
    /\ u_0 \in {ZeroGrid, GridA}
    /\ u_1 \in {ImpulseGrid, GridB}
    /\ B \in Masks
    /\ w = <<>> /\ readout = <<>>
    /\ x_range = Ranges.x
    /\ y_range = Ranges.y
    /\ pending = UpdateCells2D

InitCells ==
    /\ SynthIdle /\ ModesIdle
    /\ tolerance = <<>> /\ r_polar = <<>> /\ theta = <<>>
    /\ InitialConditionsIdle /\ GeometryIdle /\ bracket = <<>>
    /\ T = 0 /\ t = 0 /\ waveform = <<>>
    /\ \E c \in Coefficients : c_0 = c[1] /\ c_1 = c[2] /\ c_2 = c[3]
    /\ (InitCells1D \/ InitCells2D)
    /\ arg_u_0 = u_0
    /\ arg_u_1 = u_1
    /\ pc = IF pending = {} THEN "done" ELSE "update"

NextCells == Cell_FDTDUpdate1D \/ Cell_FDTDUpdate2D

SpecCells == InitCells /\ [][NextCells]_vars

\* C27: within one time step the grid does not depend on the order in which
\* the cells are visited: whatever cells have been visited so far, by
\* whatever workers, each of them holds the value the loop of the code gives
\* it and every other cell holds its old value.
C27_AnyOrderOneGrid ==
    /\ fn = "FDTDUpdate1D" =>
          /\ \A x \in DOMAIN u_0 :
                u_0[x] = IF x \in UpdateCells1D \ pending
                           THEN UpdateCell1D(arg_u_0, u_1, x)
                           ELSE arg_u_0[x]
          /\ pc = "done" => u_0 = FDTDUpdate1D(arg_u_0, u_1)
    /\ fn = "FDTDUpdate2D" =>
          /\ \A x \in DOMAIN u_0 : \A y \in DOMAIN u_0[x] :
                u_0[x][y] = IF <<x, y>> \in UpdateCells2D \ pending
                              THEN UpdateCell2D(arg_u_0, u_1, x, y)
                              ELSE arg_u_0[x][y]
          /\ pc = "done" => u_0 = FDTDUpdate2D(arg_u_0, u_1)

C27_Witness ==
    /\ fn = "FDTDUpdate2D" /\ pc = "done"
    /\ Cardinality(UpdateCells2D) >= 3
    /\ \A c \in UpdateCells2D : u_0[c[1]][c[2]] # arg_u_0[c[1]][c[2]]

(***************************************************************************)
(* FDTDWaveform1D and FDTDWaveform2D on grids of every shape from 2 cells  *)
(* a side, with masks of the same shape, the border cells included, and    *)
(* readout points on and between the ends of [0, 1].                       *)
(***************************************************************************)
GridOf(rows, columns, first) ==
    [x \in 0 .. rows - 1 |-> [y \in 0 .. columns - 1 |->
        IF first THEN PatternA(x, y) ELSE PatternB(x, y)]]

\* a mask of the shape: any set of less than MaxOnes cells, or every cell
MasksOf(rows, columns) ==
    LET all == (0 .. rows - 1) \X (0 .. columns - 1)
    IN  {[x \in 0 .. rows - 1 |-> [y \in 0 .. columns - 1 |->
            IF <<x, y>> \in ones THEN 1 ELSE 0]] :
            ones \in {free \in SUBSET all : Cardinality(free) < MaxOnes \/ free = all}}

EndsAndBetween == {Zero, Rat(1, 3), One}

InitIndices2D ==
    /\ fn = "FDTDWaveform2D"
    /\ \E rows \in 2 .. GridX, columns \in 2 .. GridY :
          /\ u_0 = GridOf(rows, columns, TRUE)
          /\ u_1 = GridOf(rows, columns, FALSE)
          /\ B \in MasksOf(rows, columns)
    /\ w \in [x : EndsAndBetween, y : EndsAndBetween]

InitIndices1D ==
    /\ fn = "FDTDWaveform1D"
    /\ B = <<>>
    /\ \E length \in 2 .. Grid1D :
          /\ u_0 = Pattern1(length)
          /\ u_1 \in {Impulse1(length, p) : p \in 0 .. length - 1}
    /\ w \in EndsAndBetween \cup {Rat(1, 2)}

InitIndices ==
    /\ SynthIdle /\ ModesIdle /\ ExtraIdle
    /\ pc = "start"
    /\ c_0 = Rat(1, 2) /\ c_1 = Zero /\ c_2 = One
    /\ T \in 2 .. 3
    /\ t = 0
    /\ waveform = <<>>
    /\ readout = <<>>
    /\ x_range = <<>>
    /\ y_range = <<>>
    /\ (InitIndices1D \/ InitIndices2D)
    /\ arg_u_0 = u_0
    /\ arg_u_1 = u_1

SpecIndices == InitIndices /\ [][NextFDTD]_vars

\* the cells of the two grids that one call of the lambda FDTDUpdate1D reads
\* or writes (lines 66-68)
UpdateReads1D == UNION {{x - 1, x, x + 1} : x \in 1 .. readout.X}

NonNegative(v) == RLe(Zero, v)

\* C28: on a grid of at least 2 cells a side, with a mask of its shape and a
\* readout coordinate in [0, 1], the ends included, no index is outside the
\* grid: 0 <= x_0 and x_0 + 1 <= size - 1 on each axis, the interpolation
\* weights are not negative and sum to 1, and every cell that is updated has
\* its neighbours inside the grid.
C28_IndicesInsideTheGrid ==
    /\ pc \notin {"crashed", "garbage", "invalid_argument"}
    /\ (fn = "FDTDWaveform1D" /\ pc \in {"loop", "done"}) =>
          /\ 0 <= readout.x_0 /\ readout.x_0 + 1 <= size(u_0) - 1
          /\ NonNegative(readout.a) /\ NonNegative(RSub(One, readout.a))
          /\ RAdd(RSub(One, readout.a), readout.a) = One
          /\ UpdateReads1D \subseteq DOMAIN u_0
    /\ (fn = "FDTDWaveform2D" /\ pc \in {"loop", "done"}) =>
          /\ 0 <= readout.x_0 /\ readout.x_0 + 1 <= size(u_0) - 1
          /\ 0 <= readout.y_0 /\ readout.y_0 + 1 <= size(u_0[0]) - 1
          /\ LET coef_0 == RMul(RSub(One, readout.a), RSub(One, readout.b))
                 coef_1 == RMul(RSub(One, readout.a), readout.b)
                 coef_2 == RMul(readout.a, RSub(One, readout.b))
                 coef_3 == RMul(readout.a, readout.b)
             IN  /\ \A coef \in {coef_0, coef_1, coef_2, coef_3} : NonNegative(coef)
                 /\ RAdd(RAdd(coef_0, coef_1), RAdd(coef_2, coef_3)) = One
          /\ \A c \in UpdateReads2D : Has2D(u_0, c[1], c[2]) /\ Has2D(u_1, c[1], c[2])

C28_Witness ==
    /\ fn = "FDTDWaveform2D" /\ pc = "done"
    /\ T = 3
    /\ w = [x |-> One, y |-> Zero]
    /\ readout.x_0 + 1 = size(u_0) - 1
    /\ UpdateReads2D # {}

(***************************************************************************)
(* The outermost rows and columns in FDTDWaveform2D.                       *)
(***************************************************************************)
\* the cells of the active bounding box
Box == (x_range[1] .. x_range[2]) \X (y_range[1] .. y_range[2])

\* the cells that are not on the outermost rows and columns of the mask
StrictInterior == (1 .. size(B) - 2) \X (1 .. size(B[0]) - 2)

\* each of the two buffers holds at cell c what the caller gave it
AsGiven(c) ==
    /\ u_0[c[1]][c[2]] = IF t % 2 = 0 THEN arg_u_0[c[1]][c[2]] ELSE arg_u_1[c[1]][c[2]]
    /\ u_1[c[1]][c[2]] = IF t % 2 = 0 THEN arg_u_1[c[1]][c[2]] ELSE arg_u_0[c[1]][c[2]]

\* C29: in FDTDWaveform2D a cell of the outermost rows and columns is never
\* updated, also when its mask value is 1: the active bounding box is within
\* [1, rows - 2] x [1, columns - 2], and a mask with no 1 in the strict
\* interior gives an empty box and a run in which neither grid changes.
C29_BorderCellsAreFixed ==
    (fn = "FDTDWaveform2D" /\ pc \in {"loop", "done"}) =>
        /\ Box \subseteq StrictInterior
        /\ \A c \in CommonCells \ StrictInterior : AsGiven(c)
        /\ (\A c \in StrictInterior : B[c[1]][c[2]] = 0) =>
              /\ Box = {}
              /\ \A c \in CommonCells : AsGiven(c)

C29_Witness ==
    /\ fn = "FDTDWaveform2D" /\ pc = "done"
    /\ t >= 4
    /\ B[0][1] = 1 /\ B[1][1] = 1
    /\ u_0[1][1] # arg_u_0[1][1] /\ u_1[1][1] # arg_u_1[1][1]
    /\ arg_u_1[0][1] # arg_u_0[0][1]

(***************************************************************************)
(* FDTDWaveform1D in the stable configuration of test_fdtd.cpp (c_0 = 1,   *)
(* c_1 = 0, c_2 = 1, u_0 zero, u_1 a unit impulse), on every grid length   *)
(* from 3 and with the impulse at every interior cell.                     *)
(***************************************************************************)
InitImpulse ==
    /\ SynthIdle /\ ModesIdle /\ ExtraIdle
    /\ fn = "FDTDWaveform1D"
    /\ pc = "start"
    /\ T = StableT
    /\ t = 0
    /\ waveform = <<>>
    /\ readout = <<>>
    /\ x_range = <<>>
    /\ y_range = <<>>
    /\ B = <<>>
    /\ c_0 = One /\ c_1 = Zero /\ c_2 = One
    /\ w = Rat(1, 2)
    /\ \E length \in (3 .. Grid1D) \cup {11} :
          /\ u_0 = Zero1(length)
          /\ u_1 \in {Impulse1(length, p) : p \in 1 .. length - 2}
    /\ arg_u_0 = u_0
    /\ arg_u_1 = u_1

NextImpulse == Start1D \/ Step1D \/ Finish1D

SpecImpulse == InitImpulse /\ [][NextImpulse]_vars

UnitValues == {Int2R(-1), Zero, One}

\* C30: in the stable configuration every cell of both grids holds -1, 0 or
\* 1 after every update step, whatever the grid length and the interior cell
\* of the impulse, and the two edge cells stay 0.
C30_FieldStaysWithinUnit ==
    (fn = "FDTDWaveform1D" /\ pc \in {"loop", "done"}) =>
        /\ \A x \in DOMAIN u_0 : u_0[x] \in UnitValues /\ u_1[x] \in UnitValues
        /\ u_0[0] = Zero /\ u_0[size(u_0) - 1] = Zero
        /\ u_1[0] = Zero /\ u_1[size(u_1) - 1] = Zero

C30_Witness ==
    /\ fn = "FDTDWaveform1D" /\ pc = "done"
    /\ t = StableT
    /\ size(u_0) = Grid1D
    /\ \E x \in DOMAIN u_1 : u_1[x] = Int2R(-1) \/ u_0[x] = Int2R(-1)

====
